---- MODULE Spec2Model ----
(***************************************************************************)
(* Order signing and submission tools of the trading agent:               *)
(*   tools/sign_order.py  (sign_order, main --type order)                  *)
(*   tools/place_order.py (main)                                           *)
(* The decimal-to-integer conversions are IEEE-754 binary64 computations   *)
(* (argparse type=float, float * int, int()), modelled bit by bit.        *)
(***************************************************************************)
EXTENDS Integers, Sequences, FiniteSets, TLC

\* An optional value is the empty sequence (Python's None) or <<v>>
None == <<>>
Some(v) == <<v>>
The(x) == x[1]
Opt(S) == {None} \cup {Some(v) : v \in S}
\* no exception
NoExc == "None"

(***************************************************************************)
(* Program constants                                                       *)
(***************************************************************************)
PRICE_PRECISION == 10000
USDC_DECIMALS == 6
EXPIRY_DEFAULT_SECS == 3600
MANT_BITS == 53

(***************************************************************************)
(* Bounds of the model                                                     *)
(***************************************************************************)
StartMs == 5000
MaxTicks == 2
TickMs == 600
MaxMarket == 0
MaxMissing == 1
\* width of the digits of the long arithmetic, and the number of digits a
\* long division produces (enough for MANT_BITS + 1 significant binary digits
\* of any input >= 10^-7)
LIMB_BITS == 6
DIV_LIMBS == 14

(***************************************************************************)
(* binary64 arithmetic.  A finite non-zero float is                        *)
(*   [kind |-> "fin", neg, bits, exp]                                      *)
(* bits: MANT_BITS binary digits, most significant first, bits[1] = 1;     *)
(* exp: the binary exponent of bits[1].  The other floats are "zero",      *)
(* "inf" (with a sign) and "nan".                                          *)
(***************************************************************************)
\* b^n by repeated squaring
RECURSIVE Pow(_, _)
Pow(b, n) ==
  IF n = 0 THEN 1
  ELSE IF n % 2 = 0 THEN LET h == Pow(b, n \div 2) IN h * h
  ELSE b * Pow(b, n - 1)

\* Bit strings are handled LIMB_BITS binary digits at a time ("limbs"), so that
\* every intermediate product stays below 2^31.
LIMB == Pow(2, LIMB_BITS)

StripZeros(bs) ==
  IF \A i \in 1..Len(bs) : bs[i] = 0 THEN <<>>
  ELSE LET f == CHOOSE i \in 1..Len(bs) :
                  bs[i] = 1 /\ \A j \in 1..(i - 1) : bs[j] = 0
       IN SubSeq(bs, f, Len(bs))

\* the integer written by at most LIMB_BITS binary digits
RECURSIVE LimbValue(_)
LimbValue(bs) ==
  IF bs = <<>> THEN 0
  ELSE 2 * LimbValue(SubSeq(bs, 1, Len(bs) - 1)) + bs[Len(bs)]

\* the limbs of a bit string (padded with leading zeros), and back
LimbsOfBits(bs) ==
  LET n   == (Len(bs) + LIMB_BITS - 1) \div LIMB_BITS
      pad == n * LIMB_BITS - Len(bs)
      p   == [i \in 1..pad |-> 0] \o bs
  IN [j \in 1..n |->
        LimbValue(SubSeq(p, LIMB_BITS * (j - 1) + 1, LIMB_BITS * j))]
BitsOfLimbs(ds) ==
  [i \in 1..(LIMB_BITS * Len(ds)) |->
     (ds[(i - 1) \div LIMB_BITS + 1]
        \div Pow(2, LIMB_BITS - 1 - ((i - 1) % LIMB_BITS))) % 2]

\* the binary digits of q >= 0 (q < 2^31), no leading zeros
IntBits(q) == StripZeros([i \in 1..31 |-> (q \div Pow(2, 31 - i)) % 2])

RECURSIVE LimbsInt(_)
LimbsInt(ds) ==
  IF ds = <<>> THEN 0
  ELSE LIMB * LimbsInt(SubSeq(ds, 1, Len(ds) - 1)) + ds[Len(ds)]
\* the integer written by a bit string (below 2^31)
BitsInt(bs) == LimbsInt(LimbsOfBits(bs))

AnyOne(bs) == \E i \in 1..Len(bs) : bs[i] = 1

\* bs + 1 on a bit string; all ones carries into a longer string
IncBits(bs) ==
  IF \A i \in 1..Len(bs) : bs[i] = 1
  THEN <<1>> \o [i \in 1..Len(bs) |-> 0]
  ELSE LET z == CHOOSE i \in 1..Len(bs) :
                  bs[i] = 0 /\ \A j \in (i + 1)..Len(bs) : bs[j] = 1
       IN [i \in 1..Len(bs) |-> IF i < z THEN bs[i] ELSE IF i = z THEN 1 ELSE 0]

\* Round an exact value to MANT_BITS bits, ties to even.  bs are the leading
\* digits of the value from its first 1 (exponent e); sticky says that the
\* value has non-zero digits beyond bs.
RoundNearestEven(neg, bs, e, sticky) ==
  IF Len(bs) <= MANT_BITS
  THEN [kind |-> "fin", neg |-> neg, exp |-> e,
        bits |-> bs \o [i \in 1..(MANT_BITS - Len(bs)) |-> 0]]
  ELSE LET m    == SubSeq(bs, 1, MANT_BITS)
           g    == bs[MANT_BITS + 1]
           rest == sticky \/ AnyOne(SubSeq(bs, MANT_BITS + 2, Len(bs)))
           up   == g = 1 /\ (rest \/ m[MANT_BITS] = 1)
           m2   == IF up THEN IncBits(m) ELSE m
       IN IF Len(m2) > MANT_BITS
          THEN [kind |-> "fin", neg |-> neg, exp |-> e + 1,
                bits |-> SubSeq(m2, 1, MANT_BITS)]
          ELSE [kind |-> "fin", neg |-> neg, exp |-> e, bits |-> m2]

\* Long division r / D in base LIMB (r < D <= 10^7): the first n limbs after
\* the point, and whether a remainder is left.
RECURSIVE DivLimbs(_, _, _)
DivLimbs(r, D, n) ==
  IF n = 0 \/ r = 0 THEN [limbs |-> <<>>, sticky |-> r # 0]
  ELSE LET d == DivLimbs((LIMB * r) % D, D, n - 1)
       IN [limbs |-> <<(LIMB * r) \div D>> \o d.limbs, sticky |-> d.sticky]

\* float("<num>e-<scale>"): the binary64 nearest to num / 10^scale
DecToFloat(neg, num, scale) ==
  IF num = 0 THEN [kind |-> "zero", neg |-> neg]
  ELSE LET D   == Pow(10, scale)
           ib  == IntBits(num \div D)
           d   == DivLimbs(num % D, D, DIV_LIMBS)
           all == ib \o BitsOfLimbs(d.limbs)
           sig == StripZeros(all)
       IN RoundNearestEven(neg, sig, Len(ib) - 1 - (Len(all) - Len(sig)),
                           d.sticky)

\* limbs * k for a small positive integer k (k <= 10^6), exactly, least
\* significant limb last
RECURSIVE MulLimbs(_, _, _)
MulLimbs(ds, k, carry) ==
  IF ds = <<>> THEN LimbsOfBits(IntBits(carry))
  ELSE LET t == ds[Len(ds)] * k + carry
       IN Append(MulLimbs(SubSeq(ds, 1, Len(ds) - 1), k, t \div LIMB), t % LIMB)

\* x * k in binary64 for a positive integer k (k converts to a float exactly)
FloatMulInt(x, k) ==
  IF x.kind # "fin" THEN x
  ELSE LET p == StripZeros(BitsOfLimbs(MulLimbs(LimbsOfBits(x.bits), k, 0)))
       IN RoundNearestEven(x.neg, p, x.exp + (Len(p) - MANT_BITS), FALSE)

\* int(x): truncation toward zero; raises on nan (ValueError) and inf
\* (OverflowError)
FloatToInt(x) ==
  IF x.kind \in {"nan", "inf"} THEN [raised |-> TRUE, val |-> 0]
  ELSE IF x.kind = "zero" \/ x.exp < 0 THEN [raised |-> FALSE, val |-> 0]
  ELSE LET ip == BitsInt(SubSeq(x.bits, 1, x.exp + 1))
       IN [raised |-> FALSE, val |-> IF x.neg THEN 0 - ip ELSE ip]

\* x <= 0 and x >= 1 on floats (both false on nan)
FloatLeZero(x) ==
  \/ x.kind = "zero"
  \/ x.kind \in {"fin", "inf"} /\ x.neg
FloatGeOne(x) ==
  \/ x.kind = "inf" /\ ~x.neg
  \/ x.kind = "fin" /\ ~x.neg /\ x.exp >= 0


(***************************************************************************)
(* Command lines.  A decimal option value is the text the user typed:      *)
(* [kind |-> "dec", neg, num, scale] for (-)num / 10^scale, or the words   *)
(* nan and inf, which float() accepts as well.                             *)
(***************************************************************************)
Dec(num, scale) == [kind |-> "dec", neg |-> FALSE, num |-> num, scale |-> scale]
NegDec(num, scale) == [kind |-> "dec", neg |-> TRUE, num |-> num, scale |-> scale]
NaNText == [kind |-> "nan", neg |-> FALSE, num |-> 0, scale |-> 0]
InfText == [kind |-> "inf", neg |-> FALSE, num |-> 0, scale |-> 0]

\* --price values: 0.55, 0.0001, 0.57, 0.00001, 0, 1, 1.5, -0.5, nan
PriceInputs ==
  { Dec(55, 2), Dec(1, 4), Dec(57, 2), Dec(1, 5), Dec(0, 0), Dec(1, 0),
    Dec(15, 1), NegDec(5, 1), NaNText }
\* --amount values: 10, 0.0000015, 0.0000005, 0, -5, inf
AmountInputs ==
  { Dec(10, 0), Dec(15, 7), Dec(5, 7), Dec(0, 0), NegDec(5, 0), InfText }
NonceInputs == {0, 7}
ExpiryInputs == {0, 9}
MarketInputs == 0..MaxMarket
SideInputs == {"buy", "sell"}
OutcomeInputs == {"yes", "no"}

Tools == {"place_order", "sign_order", "cancel_order"}

\* argparse namespaces; an option that was not given is None
AllArgs ==
  [market_id : Opt(MarketInputs), side : Opt(SideInputs),
   outcome : Opt(OutcomeInputs), price : Opt(PriceInputs),
   amount : Opt(AmountInputs), nonce : Opt(NonceInputs),
   expiry : Opt(ExpiryInputs)]
RequiredOpts == {"market_id", "side", "outcome", "price", "amount"}
Missing(a) == {o \in RequiredOpts : a[o] = None}
\* the command lines of the model leave out at most MaxMissing options
ArgSpace == {a \in AllArgs : Cardinality(Missing(a)) <= MaxMissing}

\* type=float of argparse
ParseFloat(t) ==
  IF t.kind = "dec" THEN DecToFloat(t.neg, t.num, t.scale)
  ELSE [kind |-> t.kind, neg |-> t.neg]

(***************************************************************************)
(* Keys, addresses and the resolved configuration                          *)
(***************************************************************************)
GoodKeys == {"k1", "k2"}
KeyInputs == {"", "malformed", "k1", "k2"}
\* Account.from_key(pk).address
Address(pk) == IF pk = "k1" THEN "0xAddr1" ELSE "0xAddr2"

ChainIds == {10143, 143}
ExchangeAddresses == {"0xC628", "0xE0E0"}
ExchangeUrls == {"http://localhost:3002"}
AllConfigs ==
  [PRIVATE_KEY : KeyInputs, CHAIN_ID : ChainIds,
   EXCHANGE_ADDRESS : ExchangeAddresses, EXCHANGE_URL : ExchangeUrls]

(***************************************************************************)
(* sign_order.py: typed-data encoding and signing.  The hash and the       *)
(* signature scheme are ideal: a digest is the byte string it was computed *)
(* from, a signature is the pair of the signing key and the digest.        *)
(***************************************************************************)
\* variant: the chain id of the testnet preset instead of the configured one
build_eip712_domain_FixedChain(c) ==
  [name |-> "BlackjackExchange", version |-> "1",
   chainId |-> 10143, verifyingContract |-> c.EXCHANGE_ADDRESS]

build_eip712_domain(c) ==
  [name |-> "BlackjackExchange", version |-> "1",
   chainId |-> c.CHAIN_ID, verifyingContract |-> c.EXCHANGE_ADDRESS]

\* variant: the type without its last field
ORDER_TYPES_NoExpiry ==
  << [name |-> "trader",   type |-> "address"],
     [name |-> "marketId", type |-> "uint64"],
     [name |-> "isBuy",    type |-> "bool"],
     [name |-> "isYes",    type |-> "bool"],
     [name |-> "price",    type |-> "uint64"],
     [name |-> "amount",   type |-> "uint128"],
     [name |-> "nonce",    type |-> "uint64"] >>

ORDER_TYPES ==
  << [name |-> "trader",   type |-> "address"],
     [name |-> "marketId", type |-> "uint64"],
     [name |-> "isBuy",    type |-> "bool"],
     [name |-> "isYes",    type |-> "bool"],
     [name |-> "price",    type |-> "uint64"],
     [name |-> "amount",   type |-> "uint128"],
     [name |-> "nonce",    type |-> "uint64"],
     [name |-> "expiry",   type |-> "uint64"] >>

\* the 32-byte word of a field value; an unsigned integer type takes no
\* negative value (the upper limits 2^64 and 2^128 are beyond the modelled
\* inputs), an address is not the empty text
Encodable(type, v) ==
  /\ type \in {"uint64", "uint128"} => v >= 0
  /\ type = "address" => v # ""
EncodeField(type, v) ==
  IF type = "bool" THEN (IF v THEN 1 ELSE 0) ELSE v

\* encode_typed_data(domain_data, message_types, message_data): the signable
\* message 0x1901 || domainSeparator || hashStruct(message)
encode_typed_data(domain, types, message_data) ==
  [domainSeparator |-> domain,
   structHash |->
     [typeHash |-> types,
      words |-> [i \in 1..Len(types) |->
                   EncodeField(types[i].type, message_data[types[i].name])]]]

\* account.sign_message(signable).signature, and signer recovery
SignMessage(pk, signable) == [signer |-> pk, digest |-> signable]
Recover(sig, digest) ==
  IF sig.digest = digest THEN Address(sig.signer) ELSE "0xUnrelated"

\* str(n) of an integer, as the sequence of its characters
Digits == <<"0", "1", "2", "3", "4", "5", "6", "7", "8", "9">>
RECURSIVE NatStr(_)
NatStr(n) ==
  IF n < 10 THEN <<Digits[n + 1]>>
  ELSE Append(NatStr(n \div 10), Digits[(n % 10) + 1])
Str(n) == IF n < 0 THEN <<"-">> \o NatStr(0 - n) ELSE NatStr(n)

\* the integer a decimal string writes
RECURSIVE NatOfStr(_)
NatOfStr(s) ==
  IF s = <<>> THEN 0
  ELSE 10 * NatOfStr(SubSeq(s, 1, Len(s) - 1))
       + (CHOOSE d \in 0..9 : Digits[d + 1] = s[Len(s)])
IntOfStr(s) ==
  IF s # <<>> /\ s[1] = "-" THEN 0 - NatOfStr(Tail(s)) ELSE NatOfStr(s)

\* sig.hex() carries a "0x" prefix or not, depending on the hexbytes release
HexStyles == {"bare", "0x"}
\* a signature is r, s and v: 65 bytes, two hexadecimal digits each
SIGNATURE_BYTES == 65
HexOf(sig, style) ==
  [prefixes |-> IF style = "0x" THEN 1 ELSE 0, digits |-> 2 * SIGNATURE_BYTES,
   bytes |-> sig]
\* variant: "0x" is put in front whatever the text starts with
_hex_sig_AlwaysPrefix(h) == [h EXCEPT !.prefixes = @ + 1]
_hex_sig(h) == IF h.prefixes >= 1 THEN h ELSE [h EXCEPT !.prefixes = 1]

\* variant: nonce and expiry exchanged in the signed message
MessageData_SwappedNonceExpiry(address, market_id, is_buy, is_yes, price_bps, amount_raw, nonce, expiry) ==
  [trader |-> address, marketId |-> market_id, isBuy |-> is_buy,
   isYes |-> is_yes, price |-> price_bps, amount |-> amount_raw,
   nonce |-> expiry, expiry |-> nonce]

\* message_data of sign_order
MessageData(address, market_id, is_buy, is_yes, price_bps, amount_raw, nonce, expiry) ==
  [trader |-> address, marketId |-> market_id, isBuy |-> is_buy,
   isYes |-> is_yes, price |-> price_bps, amount |-> amount_raw,
   nonce |-> nonce, expiry |-> expiry]

\* sign_order(cfg, account, ...): raises when a field cannot be encoded,
\* otherwise returns the payload; signable is what was signed
sign_order(c, pk, market_id, is_buy, is_yes, price_bps, amount_raw, nonce, expiry, style) ==
  LET domain  == build_eip712_domain(c)
      address == Address(pk)
      message_data == MessageData(address, market_id, is_buy, is_yes,
                                  price_bps, amount_raw, nonce, expiry)
      signable == encode_typed_data(domain, ORDER_TYPES, message_data)
      sig == SignMessage(pk, signable)
  IN IF \/ ~Encodable("address", domain.verifyingContract)
        \/ \E i \in 1..Len(ORDER_TYPES) :
             ~Encodable(ORDER_TYPES[i].type,
                        message_data[ORDER_TYPES[i].name])
     THEN [raised |-> TRUE, signable |-> None, payload |-> None]
     ELSE [raised |-> FALSE, signable |-> signable,
           payload |->
             [trader |-> address, marketId |-> market_id, isBuy |-> is_buy,
              isYes |-> is_yes, price |-> price_bps,
              amount |-> Str(amount_raw), nonce |-> nonce,
              expiry |-> expiry,
              signature |-> _hex_sig(HexOf(sig, style))]]

(***************************************************************************)
(* _config.py: load_config.  A dict is a function on the keys it holds.    *)
(***************************************************************************)
EmptyDict == [k \in {} |-> ""]
\* d.get(key, default)
DictGet(d, key, default) == IF key \in DOMAIN d THEN d[key] ELSE default

_NETWORKS ==
  [testnet |-> [CHAIN_ID |-> Str(10143), EXCHANGE_ADDRESS |-> "0xC628"],
   mainnet |-> [CHAIN_ID |-> Str(143), EXCHANGE_ADDRESS |-> "0xC628"]]
_DEFAULT_NETWORK == "testnet"
DEFAULT_EXCHANGE_URL == "http://localhost:3002"

\* _fetch_exchange_config: the answer of GET /api/config is its status (0
\* when the request raised) and its JSON object; only true values are taken
_fetch_exchange_config(response) ==
  IF response.status # 200 THEN EmptyDict
  ELSE LET data == response.data
           taken ==
             {k \in {"CHAIN_ID", "NETWORK", "EXCHANGE_ADDRESS"} :
                CASE k = "CHAIN_ID" ->
                       "chainId" \in DOMAIN data /\ data.chainId # 0
                  [] k = "NETWORK" ->
                       "network" \in DOMAIN data /\ data.network # ""
                  [] OTHER ->
                       "exchange" \in DOMAIN data /\ data.exchange # ""}
       IN [k \in taken |->
             CASE k = "CHAIN_ID" -> Str(data.chainId)
               [] k = "NETWORK" -> data.network
               [] OTHER -> data.exchange]

\* int(text) of a text read from a configuration source
IsDecimal(text) ==
  /\ text # <<>>
  /\ \A i \in 1..Len(text) : \E d \in 1..10 : Digits[d] = text[i]

\* the dicts get() looks into, in its order
ConfigSources(src, remote_config, preset) ==
  <<src.env, src.agent_env, src.file_config, remote_config, preset>>

\* the nested .get calls of get(key, default), on the dicts ds from index i
RECURSIVE NestedGet(_, _, _, _)
NestedGet(ds, i, key, default) ==
  IF i > Len(ds) THEN default
  ELSE DictGet(ds[i], key, NestedGet(ds, i + 1, key, default))

\* load_config() on the sources src: the environment, the agent*.env file,
\* config.json, and the answer of each exchange URL to GET /api/config
load_config(src) ==
  LET network == DictGet(src.env, "NETWORK", _DEFAULT_NETWORK)
      preset == IF network \in DOMAIN _NETWORKS THEN _NETWORKS[network]
                ELSE _NETWORKS[_DEFAULT_NETWORK]
      exchange_url ==
        DictGet(src.env, "EXCHANGE_URL",
                DictGet(src.agent_env, "EXCHANGE_URL",
                        DictGet(src.file_config, "EXCHANGE_URL",
                                DEFAULT_EXCHANGE_URL)))
      remote_config == _fetch_exchange_config(src.remote[exchange_url])
      get(key, default) ==
        NestedGet(ConfigSources(src, remote_config, preset), 1, key, default)
      chain_id == get("CHAIN_ID", <<>>)
  IN [raised |-> ~IsDecimal(chain_id),
      cfg |-> [PRIVATE_KEY |-> get("PRIVATE_KEY", ""),
               EXCHANGE_URL |-> exchange_url,
               CHAIN_ID |-> IF IsDecimal(chain_id) THEN NatOfStr(chain_id)
                            ELSE 0,
               EXCHANGE_ADDRESS |-> get("EXCHANGE_ADDRESS", ""),
               NETWORK |-> get("NETWORK", network)]]

\* time.time() in milliseconds, read twice in a row
Clock == {StartMs + TickMs * i : i \in 0..MaxTicks}
NowMs(t) == t
NowSecs(t) == t \div 1000

(***************************************************************************)
(* sign_cancel: the EIP-191 personal message that cancels an order.  A     *)
(* text is the sequence of its characters.                                 *)
(***************************************************************************)
CANCEL_PREFIX ==
  <<"C", "a", "n", "c", "e", "l", " ", "o", "r", "d", "e", "r", " ">>
NEWLINE == <<"\n">>
TIMESTAMP_LABEL ==
  <<"T", "i", "m", "e", "s", "t", "a", "m", "p", ":", " ">>

\* order ids: plain ones, the empty one, and one that holds the text that
\* separates id and time in the message
OrderIds ==
  {<<>>, <<"a">>, <<"a", "1">>,
   <<"a">> \o NEWLINE \o TIMESTAMP_LABEL \o Str(StartMs)}

\* variant: the message carries the time in seconds
CancelMessage_Seconds(order_id, timestamp) ==
  CANCEL_PREFIX \o order_id \o NEWLINE \o TIMESTAMP_LABEL
    \o Str(timestamp \div 1000)
\* f"Cancel order {order_id}\nTimestamp: {timestamp}"
CancelMessage(order_id, timestamp) ==
  CANCEL_PREFIX \o order_id \o NEWLINE \o TIMESTAMP_LABEL \o Str(timestamp)

\* encode_defunct(text=message): the EIP-191 version "E" signable message
encode_defunct(text) == [version |-> "E", body |-> text]

\* variant: the timestamp field is cut to whole seconds after the message
\* was built
sign_cancel_CoarseField(pk, order_id, now, style) ==
  LET timestamp == NowMs(now)
      message == CancelMessage(order_id, timestamp)
      signable_message == encode_defunct(message)
      sig == SignMessage(pk, signable_message)
  IN [orderId |-> order_id, message |-> message,
      timestamp |-> NowSecs(now) * 1000,
      signature |-> _hex_sig(HexOf(sig, style))]
\* sign_cancel(account, order_id) when time.time() reads now (milliseconds)
sign_cancel(pk, order_id, now, style) ==
  LET timestamp == NowMs(now)
      message == CancelMessage(order_id, timestamp)
      signable_message == encode_defunct(message)
      sig == SignMessage(pk, signable_message)
  IN [orderId |-> order_id, message |-> message, timestamp |-> timestamp,
      signature |-> _hex_sig(HexOf(sig, style))]

(***************************************************************************)
(* One invocation of place_order.py, of sign_order.py or of                *)
(* cancel_order.py                                                         *)
(***************************************************************************)
\* the command lines that cancel: sign_order.py --type cancel (type is None
\* when --type was not given) and cancel_order.py
SignCancelArgs == [type : Opt({"cancel"}), order_id : Opt(OrderIds)]
CancelOrderArgs == [order_id : Opt(OrderIds)]
IsOrderArgs(a) == "price" \in DOMAIN a

\* what the runs find around them: a key in the environment, no key, a
\* malformed key in the agent env file, an empty EXCHANGE_ADDRESS or an
\* empty CHAIN_ID in the environment; no config.json, exchange unreachable
Unreachable == [u \in {DEFAULT_EXCHANGE_URL} |-> [status |-> 0, data |-> EmptyDict]]
SourcesOf(env, agent_env) ==
  [env |-> env, agent_env |-> agent_env, file_config |-> EmptyDict,
   remote |-> Unreachable]
KeyInEnv == SourcesOf("PRIVATE_KEY" :> "k1", EmptyDict)
\* the order command lines that are run in every surrounding: those that
\* leave nonce and expiry to their defaults
PlainArgs == {a \in ArgSpace : a.nonce = None /\ a.expiry = None}
CliSources ==
  {KeyInEnv,
   SourcesOf(EmptyDict, EmptyDict),
   SourcesOf(EmptyDict, "PRIVATE_KEY" :> "malformed"),
   SourcesOf(("PRIVATE_KEY" :> "k1") @@ ("EXCHANGE_ADDRESS" :> ""), EmptyDict),
   SourcesOf(("PRIVATE_KEY" :> "k1") @@ ("CHAIN_ID" :> <<>>), EmptyDict)}

VARIABLES
  tool,      \* the script that runs
  args,      \* its parsed command line
  cfg,       \* what load_config() returns
  pc,        \* "start", "ready", "prepared", "signed", "exit"
  order,     \* price_bps, amount_raw, nonce, expiry of main, or None
  signable,  \* the message sign_order signed, or None
  payload,   \* the payload sign_order returned, or None
  posts,     \* the HTTP submissions sent
  stdout,    \* the JSON objects printed on standard output
  exitCode,  \* the exit status, None while running
  raised,    \* the exception that ended the run unhandled, or NoExc
  signLog,   \* direct calls of sign_order: arguments and result of each
  sources,   \* what load_config() reads: environment, files, /api/config
  cancelData,\* what sign_cancel returned to main, or None
  cancelLog, \* direct calls of sign_cancel: arguments and result of each
  calls,     \* concurrent calls of sign_order: the frame of each
  cash,      \* cashout.py: its inputs, the chain, the transactions sent
  pair,      \* the outcome of sign_order.py when place_order.py runs after it
  vault,     \* vault_ops.py: the chain it reads and the transactions sent
  ready,     \* ready_check.py: the environment it probes and its checks
  ws         \* ws_listener.py: the connection, the clock and the lines printed

\* the variables an invocation of the order tools leaves alone
\* the variables of the tools that were added last
later == <<pair, vault, ready, ws>>
ext == <<cancelLog, calls, cash, later>>

vars == <<tool, args, cfg, pc, order, signable, payload, posts, stdout,
          exitCode, raised, signLog, sources, cancelData, ext>>

Init ==
  /\ pair = None
  /\ vault = None
  /\ ready = None
  /\ ws = None
  /\ \/ /\ tool \in Tools \ {"cancel_order"}
        /\ \/ args \in ArgSpace /\ sources = KeyInEnv
           \/ args \in PlainArgs /\ sources \in CliSources
     \/ tool = "sign_order" /\ args \in SignCancelArgs
                             /\ sources \in CliSources
     \/ tool = "cancel_order" /\ args \in CancelOrderArgs
                               /\ sources \in CliSources
  /\ cfg = None
  /\ pc = "start"
  /\ order = None
  /\ signable = None
  /\ payload = None
  /\ posts = <<>>
  /\ stdout = <<>>
  /\ exitCode = None
  /\ raised = NoExc
  /\ signLog = {}
  /\ cancelData = None
  /\ cancelLog = {}
  /\ calls = None
  /\ cash = None

\* _config.output / _config.error_exit / an unhandled exception / sys.exit
ErrorObject(msg) == [success |-> FALSE, error |-> msg]
ErrorExit(msg) ==
  /\ stdout' = Append(stdout, ErrorObject(msg))
  /\ exitCode' = Some(1)
  /\ raised' = NoExc
  /\ pc' = "exit"
Crash(exc) ==
  /\ stdout' = stdout
  /\ exitCode' = Some(1)
  /\ raised' = exc
  /\ pc' = "exit"
UsageExit ==
  /\ stdout' = stdout
  /\ exitCode' = Some(2)
  /\ raised' = NoExc
  /\ pc' = "exit"

\* parse_args ends the run when a required option is not given
UsageError(t, a) ==
  CASE t = "place_order" -> Missing(a) # {}
    [] t = "cancel_order" -> a.order_id = None
    [] OTHER -> ~IsOrderArgs(a) /\ a.type = None

\* main up to Account.from_key: parse_args, load_config, require_private_key
Startup ==
  /\ pc = "start"
  /\ LET loaded == load_config(sources)
     IN IF UsageError(tool, args)
        THEN UsageExit /\ cfg' = cfg
        ELSE IF loaded.raised
        THEN Crash("ValueError") /\ cfg' = cfg
        ELSE /\ cfg' = Some(loaded.cfg)
             /\ IF loaded.cfg.PRIVATE_KEY = ""
                THEN ErrorExit("PRIVATE_KEY not set. Export it or add to config.json")
                ELSE IF loaded.cfg.PRIVATE_KEY \notin GoodKeys
                THEN Crash("ValueError")
                ELSE /\ pc' = "ready"
                     /\ UNCHANGED <<stdout, exitCode, raised>>
  /\ UNCHANGED <<tool, args, order, signable, payload, posts, signLog,
                 sources, cancelData, ext>>

\* a or b on an optional integer: None and 0 are both false
PyOr(a, b) == IF a = None \/ The(a) = 0 THEN b ELSE The(a)

\* int(args.price * PRICE_PRECISION) and int(args.amount * 10 ** USDC_DECIMALS)
PriceBps(price) ==
  FloatToInt(FloatMulInt(ParseFloat(The(price)), PRICE_PRECISION))
AmountRaw(amount) ==
  FloatToInt(FloatMulInt(ParseFloat(The(amount)), Pow(10, USDC_DECIMALS)))

\* the `if args.price <= 0 or args.price >= 1` test of place_order.py
PriceOutOfRange(price) ==
  FloatLeZero(ParseFloat(The(price))) \/ FloatGeOne(ParseFloat(The(price)))

\* main from the checks on the arguments to the call of sign_order
Prepare ==
  /\ pc = "ready"
  /\ IsOrderArgs(args)
  /\ IF tool = "place_order" /\ PriceOutOfRange(args.price)
     THEN /\ ErrorExit("Price must be between 0 and 1 (exclusive)")
          /\ order' = order
     ELSE IF tool = "sign_order" /\ Missing(args) # {}
     THEN /\ ErrorExit("Order signing requires: --market-id, --side, --outcome, --price, --amount")
          /\ order' = order
     ELSE IF PriceBps(args.price).raised \/ AmountRaw(args.amount).raised
     THEN /\ Crash(IF ParseFloat(The(args.price)).kind = "nan"
                      \/ (~PriceBps(args.price).raised
                          /\ ParseFloat(The(args.amount)).kind = "nan")
                   THEN "ValueError" ELSE "OverflowError")
          /\ order' = order
     ELSE \E t1 \in Clock : \E t2 \in {t \in Clock : t >= t1} :
            /\ order' = Some([price_bps  |-> PriceBps(args.price).val,
                         amount_raw |-> AmountRaw(args.amount).val,
                         nonce      |-> PyOr(args.nonce, NowMs(t1)),
                         expiry     |-> PyOr(args.expiry,
                                             NowSecs(t2) + EXPIRY_DEFAULT_SECS)])
            /\ pc' = "prepared"
            /\ UNCHANGED <<stdout, exitCode, raised>>
  /\ UNCHANGED <<tool, args, cfg, signable, payload, posts, signLog,
                 sources, cancelData, ext>>

\* the call of sign_order in main
Sign ==
  /\ pc = "prepared"
  /\ \E style \in HexStyles :
       LET r == sign_order(The(cfg), The(cfg).PRIVATE_KEY,
                           The(args.market_id),
                           args.side = Some("buy"),
                           args.outcome = Some("yes"),
                           The(order).price_bps, The(order).amount_raw,
                           The(order).nonce, The(order).expiry, style)
       IN IF r.raised
          THEN /\ Crash(IF The(cfg).EXCHANGE_ADDRESS = ""
                        THEN "EncodingTypeError" ELSE "ValueOutOfBounds")
               /\ UNCHANGED <<signable, payload>>
          ELSE /\ signable' = Some(r.signable)
               /\ payload' = Some(r.payload)
               /\ pc' = "signed"
               /\ UNCHANGED <<stdout, exitCode, raised>>
  /\ UNCHANGED <<tool, args, cfg, order, posts, signLog,
                 sources, cancelData, ext>>

\* place_order.py: requests.post and what follows.  A body that is not JSON
\* raises a RequestException or a plain ValueError, depending on the
\* requests release.
Responses == {[success |-> TRUE], [success |-> FALSE, error |-> "rejected"]}
\* variant: a failed request is sent again
Submit_Retry ==
  /\ pc = "signed"
  /\ tool = "place_order"
  /\ posts' = Append(posts, [method |-> "POST",
                             url |-> <<The(cfg).EXCHANGE_URL, "/api/order">>,
                             json |-> [order |-> The(payload)]])
  /\ \/ \E data \in Responses :
          /\ stdout' = Append(stdout, data)
          /\ exitCode' = Some(0)
          /\ raised' = NoExc
          /\ pc' = "exit"
     \/ IF Len(posts) < 2
        THEN UNCHANGED <<stdout, exitCode, raised, pc>>
        ELSE ErrorExit("Failed to submit order")
     \/ Crash("JSONDecodeError")
  /\ UNCHANGED <<tool, args, cfg, order, signable, payload, signLog,
                 sources, cancelData, ext>>
Submit ==
  /\ pc = "signed"
  /\ tool = "place_order"
  /\ posts' = Append(posts, [method |-> "POST",
                             url |-> <<The(cfg).EXCHANGE_URL, "/api/order">>,
                             json |-> [order |-> The(payload)]])
  /\ \/ \E data \in Responses :
          /\ stdout' = Append(stdout, data)
          /\ exitCode' = Some(0)
          /\ raised' = NoExc
          /\ pc' = "exit"
     \/ ErrorExit("Failed to submit order")
     \/ Crash("JSONDecodeError")
  /\ UNCHANGED <<tool, args, cfg, order, signable, payload, signLog,
                 sources, cancelData, ext>>

\* sign_order.py: output of the signed order
Emit ==
  /\ pc = "signed"
  /\ tool = "sign_order"
  /\ IsOrderArgs(args)
  /\ stdout' = Append(stdout, [success |-> TRUE, type |-> "order",
                               signedOrder |-> The(payload)])
  /\ exitCode' = Some(0)
  /\ raised' = NoExc
  /\ pc' = "exit"
  /\ UNCHANGED <<tool, args, cfg, order, signable, payload, posts, signLog,
                 sources, cancelData, ext>>

\* the cancel branch of sign_order.py and the call of sign_cancel in
\* cancel_order.py; `not args.order_id` holds of the empty id too
CancelSign ==
  /\ pc = "ready"
  /\ ~IsOrderArgs(args)
  /\ IF tool = "sign_order"
        /\ (args.order_id = None \/ The(args.order_id) = <<>>)
     THEN /\ ErrorExit("Cancel signing requires: --order-id")
          /\ cancelData' = cancelData
     ELSE \E now \in Clock : \E style \in HexStyles :
            /\ cancelData' = Some(sign_cancel(The(cfg).PRIVATE_KEY,
                                              The(args.order_id), now, style))
            /\ pc' = "signed"
            /\ UNCHANGED <<stdout, exitCode, raised>>
  /\ UNCHANGED <<tool, args, cfg, order, signable, payload, posts, signLog,
                 sources, ext>>

\* cancel_order.py: requests.delete and what follows
CancelSubmit ==
  /\ pc = "signed"
  /\ tool = "cancel_order"
  /\ posts' = Append(posts,
                     [method |-> "DELETE",
                      url |-> <<The(cfg).EXCHANGE_URL, "/api/order/",
                                The(args.order_id)>>,
                      json |-> [signature |-> The(cancelData).signature,
                                message |-> The(cancelData).message,
                                timestamp |-> The(cancelData).timestamp]])
  /\ \/ \E data \in Responses :
          /\ stdout' = Append(stdout, data)
          /\ exitCode' = Some(0)
          /\ raised' = NoExc
          /\ pc' = "exit"
     \/ ErrorExit("Failed to cancel order")
     \/ Crash("JSONDecodeError")
  /\ UNCHANGED <<tool, args, cfg, order, signable, payload, signLog,
                 sources, cancelData, ext>>

\* sign_order.py --type cancel: output of the signed cancel
CancelEmit ==
  /\ pc = "signed"
  /\ tool = "sign_order"
  /\ ~IsOrderArgs(args)
  /\ stdout' = Append(stdout, [success |-> TRUE, type |-> "cancel",
                               orderId |-> The(cancelData).orderId,
                               message |-> The(cancelData).message,
                               timestamp |-> The(cancelData).timestamp,
                               signature |-> The(cancelData).signature])
  /\ exitCode' = Some(0)
  /\ raised' = NoExc
  /\ pc' = "exit"
  /\ UNCHANGED <<tool, args, cfg, order, signable, payload, posts, signLog,
                 sources, cancelData, ext>>

Next ==
  \/ Startup \/ Prepare \/ Sign \/ Submit \/ Emit
  \/ CancelSign \/ CancelSubmit \/ CancelEmit

Spec == Init /\ [][Next]_vars

(***************************************************************************)
(* sign_order called as a function (as place_order.py imports it), several *)
(* times, on arguments that need not come from a command line              *)
(***************************************************************************)
MaxCalls == 2

SignConfigs == {c \in AllConfigs : c.PRIVATE_KEY \in GoodKeys}
SignMarkets == {0, 1}
SignPrices == {1, 5500}
SignAmounts == {1, 10000000}
SignNonces == {7, 5000}
SignExpiries == {9, 3605}
OrderArgs ==
  [market_id : SignMarkets, is_buy : BOOLEAN, is_yes : BOOLEAN,
   price_bps : SignPrices, amount_raw : SignAmounts, nonce : SignNonces,
   expiry : SignExpiries]

\* the arguments a with one of them replaced, the configuration c with one
\* of its entries replaced
ArgVariants(a) ==
  {[a EXCEPT !.market_id = v] : v \in SignMarkets}
    \cup {[a EXCEPT !.is_buy = v] : v \in BOOLEAN}
    \cup {[a EXCEPT !.is_yes = v] : v \in BOOLEAN}
    \cup {[a EXCEPT !.price_bps = v] : v \in SignPrices}
    \cup {[a EXCEPT !.amount_raw = v] : v \in SignAmounts}
    \cup {[a EXCEPT !.nonce = v] : v \in SignNonces}
    \cup {[a EXCEPT !.expiry = v] : v \in SignExpiries}
CfgVariants(c) ==
  {[c EXCEPT !.PRIVATE_KEY = v] : v \in GoodKeys}
    \cup {[c EXCEPT !.CHAIN_ID = v] : v \in ChainIds}
    \cup {[c EXCEPT !.EXCHANGE_ADDRESS = v] : v \in ExchangeAddresses}

InitSign ==
  /\ pair = None
  /\ vault = None
  /\ ready = None
  /\ ws = None
  /\ tool = "sign_order (imported)"
  /\ args = None
  /\ cfg = None
  /\ pc = "library"
  /\ order = None
  /\ signable = None
  /\ payload = None
  /\ posts = <<>>
  /\ stdout = <<>>
  /\ exitCode = None
  /\ raised = NoExc
  /\ signLog = {}
  /\ sources = None
  /\ cancelData = None
  /\ cancelLog = {}
  /\ calls = None
  /\ cash = None

CallRecord(c, a, style) ==
  LET r == sign_order(c, c.PRIVATE_KEY, a.market_id, a.is_buy, a.is_yes,
                      a.price_bps, a.amount_raw, a.nonce, a.expiry, style)
  IN [cfg |-> c, args |-> a, signable |-> r.signable, payload |-> r.payload]

\* a first call, on any arguments
SignFirst ==
  /\ signLog = {}
  /\ \E c \in SignConfigs : \E a \in OrderArgs : \E style \in HexStyles :
       signLog' = {CallRecord(c, a, style)}
  /\ UNCHANGED <<tool, args, cfg, pc, order, signable, payload, posts,
                 stdout, exitCode, raised, sources, cancelData, ext>>

\* a further call: an earlier call repeated with one argument, or one entry
\* of the configuration, replaced
SignVariant ==
  /\ signLog # {}
  /\ Cardinality(signLog) < MaxCalls
  /\ \E e \in signLog : \E style \in HexStyles :
       \/ \E a \in ArgVariants(e.args) :
            signLog' = signLog \cup {CallRecord(e.cfg, a, style)}
       \/ \E c \in CfgVariants(e.cfg) :
            signLog' = signLog \cup {CallRecord(c, e.args, style)}
  /\ UNCHANGED <<tool, args, cfg, pc, order, signable, payload, posts,
                 stdout, exitCode, raised, sources, cancelData, ext>>

NextSign == SignFirst \/ SignVariant

SpecSign == InitSign /\ [][NextSign]_vars

(***************************************************************************)
(* sign_cancel called as a function (as cancel_order.py imports it),       *)
(* several times                                                           *)
(***************************************************************************)
InitCancel ==
  /\ pair = None
  /\ vault = None
  /\ ready = None
  /\ ws = None
  /\ tool = "sign_cancel (imported)"
  /\ args = None
  /\ cfg = None
  /\ pc = "library"
  /\ order = None
  /\ signable = None
  /\ payload = None
  /\ posts = <<>>
  /\ stdout = <<>>
  /\ exitCode = None
  /\ raised = NoExc
  /\ signLog = {}
  /\ sources = None
  /\ cancelData = None
  /\ cancelLog = {}
  /\ calls = None
  /\ cash = None

\* one call of sign_cancel, at some reading of the clock
CancelCall ==
  /\ Cardinality(cancelLog) < MaxCalls
  /\ \E pk \in GoodKeys : \E id \in OrderIds : \E now \in Clock :
     \E style \in HexStyles :
       cancelLog' = cancelLog \cup
         {[key |-> pk, order_id |-> id, now |-> now,
           result |-> sign_cancel(pk, id, now, style)]}
  /\ UNCHANGED <<tool, args, cfg, pc, order, signable, payload, posts,
                 stdout, exitCode, raised, signLog, sources, cancelData,
                 calls, cash, later>>

NextCancel == CancelCall

SpecCancel == InitCancel /\ [][NextCancel]_vars

(***************************************************************************)
(* load_config called on sources that supply, leave out or leave empty one *)
(* key each, with the exchange reachable or not                            *)
(***************************************************************************)
ConfigKeys == {"PRIVATE_KEY", "CHAIN_ID", "EXCHANGE_ADDRESS", "NETWORK"}
LIVE_EXCHANGE_URL == "https://exchange.example"

\* what local source i may hold under key: an empty text or a text of its own
LocalValues(i, key) ==
  CASE key = "CHAIN_ID" -> {<<>>, Str(i)}
    [] key = "PRIVATE_KEY" -> {"", <<"k1", "k2", "malformed">>[i]}
    [] key = "EXCHANGE_ADDRESS" -> {"", <<"0xE1", "0xE2", "0xE3">>[i]}
    [] OTHER -> {"", <<"mainnet", "mainnet", "testnet">>[i]}
               \cup (IF i = 1 THEN {"devnet"} ELSE {})
\* the entries of one dict under one key: none, or one of the values vs
DictsOf(key, vs) == {EmptyDict} \cup {key :> v : v \in vs}

\* answers of GET /api/config about key: none, an error status, a value, a
\* value that is not true, or an object without the field
RemoteField(key) ==
  CASE key = "CHAIN_ID" -> "chainId"
    [] key = "NETWORK" -> "network"
    [] key = "EXCHANGE_ADDRESS" -> "exchange"
    [] OTHER -> "privateKey"
RemoteValues(key) ==
  CASE key = "CHAIN_ID" -> {0, 4}
    [] key = "NETWORK" -> {"", "mainnet"}
    [] key = "EXCHANGE_ADDRESS" -> {"", "0xE4"}
    [] OTHER -> {"", "k2"}
RemoteAnswers(key) ==
  {[status |-> 0, data |-> EmptyDict], [status |-> 200, data |-> EmptyDict]}
    \cup {[status |-> st, data |-> RemoteField(key) :> v] :
            st \in {200, 500}, v \in RemoteValues(key)}

ConfigSourceSpace ==
  UNION {
    {[env |-> e @@ net @@ (IF urlAt = 1 THEN url ELSE EmptyDict),
      agent_env |-> a @@ (IF urlAt = 2 THEN url ELSE EmptyDict),
      file_config |-> f @@ (IF urlAt = 3 THEN url ELSE EmptyDict),
      remote |-> [u \in {DEFAULT_EXCHANGE_URL, LIVE_EXCHANGE_URL} |->
                    IF u = LIVE_EXCHANGE_URL THEN r
                    ELSE [status |-> 0, data |-> EmptyDict]]] :
       e \in DictsOf(key, LocalValues(1, key)),
       a \in DictsOf(key, LocalValues(2, key)),
       f \in DictsOf(key, LocalValues(3, key)),
       r \in RemoteAnswers(key),
       net \in IF key = "NETWORK" THEN {EmptyDict}
               ELSE DictsOf("NETWORK", {"mainnet", "devnet"}),
       url \in {"EXCHANGE_URL" :> LIVE_EXCHANGE_URL},
       urlAt \in 0..3} :
    key \in ConfigKeys}

InitConfig ==
  /\ pair = None
  /\ vault = None
  /\ ready = None
  /\ ws = None
  /\ tool = "load_config"
  /\ args = None
  /\ sources \in ConfigSourceSpace
  /\ cfg = None
  /\ pc = "start"
  /\ order = None
  /\ signable = None
  /\ payload = None
  /\ posts = <<>>
  /\ stdout = <<>>
  /\ exitCode = None
  /\ raised = NoExc
  /\ signLog = {}
  /\ cancelData = None
  /\ cancelLog = {}
  /\ calls = None
  /\ cash = None

\* cfg = load_config(), as every main calls it
LoadConfig ==
  /\ pc = "start"
  /\ tool = "load_config"
  /\ LET loaded == load_config(sources)
     IN IF loaded.raised
        THEN Crash("ValueError") /\ cfg' = cfg
        ELSE /\ cfg' = Some(loaded.cfg)
             /\ pc' = "loaded"
             /\ UNCHANGED <<stdout, exitCode, raised>>
  /\ UNCHANGED <<tool, args, order, signable, payload, posts, signLog,
                 sources, cancelData, ext>>

NextConfig == LoadConfig

SpecConfig == InitConfig /\ [][NextConfig]_vars

(***************************************************************************)
(* sign_order called from several threads at once, statement by statement. *)
(* The calls share cfg, the account and the module's ORDER_TYPES; every    *)
(* call has its own frame of local variables.                              *)
(***************************************************************************)
MaxThreads == 2
Threads == 1..MaxThreads

ConcArgs ==
  {a \in OrderArgs : /\ a.market_id = 0 /\ a.is_buy /\ a.is_yes
                     /\ a.nonce = 7 /\ a.expiry = 9}
ConcConfigs ==
  {c \in SignConfigs : c.PRIVATE_KEY = "k1" /\ c.EXCHANGE_ADDRESS = "0xC628"}
EmptyFrame ==
  [address |-> None, domain |-> None, message_data |-> None,
   signable |-> None, signed |-> None]

\* variant: the local variables are module-level, one frame for all calls
FrameOf_Shared(t) == 1
\* the frame that holds the local variables of call t
FrameOf(t) == t

InitConc ==
  /\ pair = None
  /\ vault = None
  /\ ready = None
  /\ ws = None
  /\ tool = "sign_order (threads)"
  /\ args = None
  /\ cfg \in {Some(c) : c \in ConcConfigs}
  /\ pc = "library"
  /\ order = None
  /\ signable = None
  /\ payload = None
  /\ posts = <<>>
  /\ stdout = <<>>
  /\ exitCode = None
  /\ raised = NoExc
  /\ signLog = {}
  /\ sources = None
  /\ cancelData = None
  /\ cancelLog = {}
  /\ cash = None
  /\ \E as \in [Threads -> ConcArgs] : \E pk \in GoodKeys :
     \E style \in HexStyles :
       calls = [args |-> as, key |-> pk, style |-> style,
                at |-> [t \in Threads |-> "domain"],
                frames |-> [t \in Threads |-> EmptyFrame],
                result |-> [t \in Threads |-> None],
                ORDER_TYPES |-> ORDER_TYPES]

\* call t executes the statement it is at: local is assigned value and the
\* call moves on to the statement next
Assign(t, here, local, value, next) ==
  /\ calls.at[t] = here
  /\ calls' = [calls EXCEPT !.at[t] = next,
                            !.frames[FrameOf(t)][local] = Some(value)]
  /\ UNCHANGED <<tool, args, cfg, pc, order, signable, payload, posts,
                 stdout, exitCode, raised, signLog, sources, cancelData,
                 cancelLog, cash, later>>
Local(t, local) == The(calls.frames[FrameOf(t)][local])

\* domain = build_eip712_domain(cfg)
CallDomain ==
  \E t \in Threads :
    Assign(t, "domain", "domain", build_eip712_domain(The(cfg)), "address")
\* address = account.address
CallAddress ==
  \E t \in Threads :
    Assign(t, "address", "address", Address(calls.key), "message")
\* message_data = {...}
CallMessage ==
  \E t \in Threads :
    LET a == calls.args[t]
    IN Assign(t, "message", "message_data",
              MessageData(Local(t, "address"), a.market_id, a.is_buy,
                          a.is_yes, a.price_bps, a.amount_raw, a.nonce,
                          a.expiry),
              "encode")
\* signable = encode_typed_data(domain, ORDER_TYPES, message_data)
CallEncode ==
  \E t \in Threads :
    Assign(t, "encode", "signable",
           encode_typed_data(Local(t, "domain"), calls.ORDER_TYPES,
                             Local(t, "message_data")),
           "sign")
\* signed = account.sign_message(signable)
CallSignMessage ==
  \E t \in Threads :
    Assign(t, "sign", "signed",
           SignMessage(calls.key, Local(t, "signable")), "return")
\* return {...}
CallReturn ==
  \E t \in Threads :
    LET a == calls.args[t]
    IN /\ calls.at[t] = "return"
       /\ calls' =
            [calls EXCEPT
               !.at[t] = "done",
               !.result[t] =
                 Some([trader |-> Local(t, "address"),
                       marketId |-> a.market_id, isBuy |-> a.is_buy,
                       isYes |-> a.is_yes, price |-> a.price_bps,
                       amount |-> Str(a.amount_raw), nonce |-> a.nonce,
                       expiry |-> a.expiry,
                       signature |->
                         _hex_sig(HexOf(Local(t, "signed"), calls.style))])]
       /\ UNCHANGED <<tool, args, cfg, pc, order, signable, payload, posts,
                      stdout, exitCode, raised, signLog, sources,
                      cancelData, cancelLog, cash, later>>

NextConc ==
  \/ CallDomain \/ CallAddress \/ CallMessage \/ CallEncode
  \/ CallSignMessage \/ CallReturn

SpecConc == InitConc /\ [][NextConc]_vars

(***************************************************************************)
(* One invocation of cashout.py                                            *)
(***************************************************************************)
\* The texts given as addresses are two addresses, each in checksum form
\* and in lower case, one with blanks around it, a text that is no address,
\* a blank and the empty text.
\* text.strip()
Strip(text) ==
  CASE text = " 0xaa " -> "0xaa"
    [] text = " " -> ""
    [] OTHER -> text
\* Web3.to_checksum_address(text): None when it raises
ToChecksum(text) ==
  CASE text \in {"0xAa", "0xaa"} -> Some("0xAa")
    [] text \in {"0xBb", "0xbb"} -> Some("0xBb")
    [] text \in ExchangeAddresses -> Some(text)
    [] OTHER -> None

\* --amount values: 0.5, 2.5, 5, 0, 0.0000005, nan
CashAmounts == {Dec(5, 1), Dec(25, 1), Dec(5, 0), Dec(0, 0), Dec(5, 7), NaNText}
CashArgs ==
  [to : Opt({"0xAa", "0xaa", "0xBb", "junk", ""}), amount : Opt(CashAmounts),
   confirm : BOOLEAN]
\* the environment holds a key or none, and WITHDRAW_TO or not; the agent
\* env file may hold a WITHDRAW_TO of its own
CashSources ==
  {SourcesOf(k @@ w, a) :
     k \in DictsOf("PRIVATE_KEY", {"k1", "malformed"}),
     w \in DictsOf("WITHDRAW_TO", {" 0xaa ", "0xAa", "junk", " "}),
     a \in DictsOf("WITHDRAW_TO", {"0xBb"})}
\* raw USDC the agent holds in the vault and in its wallet
Chains == [vault : {0, 2000000}, wallet : {0, 1000000}]

InitCash ==
  /\ pair = None
  /\ vault = None
  /\ ready = None
  /\ ws = None
  /\ tool = "cashout"
  /\ args \in CashArgs
  /\ sources \in CashSources
  /\ cfg = None
  /\ pc = "start"
  /\ order = None
  /\ signable = None
  /\ payload = None
  /\ posts = <<>>
  /\ stdout = <<>>
  /\ exitCode = None
  /\ raised = NoExc
  /\ signLog = {}
  /\ cancelData = None
  /\ cancelLog = {}
  /\ calls = None
  /\ \E chain \in Chains : \E connected \in BOOLEAN :
       cash = [chain |-> chain, connected |-> connected,
               withdraw_to |-> None, vault_bal |-> None,
               wallet_bal |-> None, plan |-> None, txs |-> <<>>]

\* what every step of cashout.py leaves alone
cashRest ==
  <<tool, args, order, signable, payload, posts, signLog, sources,
    cancelData, cancelLog, calls, later>>

\* main up to the check of --to against WITHDRAW_TO
CashResolve ==
  /\ tool = "cashout"
  /\ pc = "start"
  /\ LET loaded == load_config(sources).cfg
         withdraw_to == Strip(DictGet(sources.env, "WITHDRAW_TO", ""))
     IN /\ cfg' = Some(loaded)
        /\ IF loaded.PRIVATE_KEY = ""
           THEN /\ ErrorExit("PRIVATE_KEY not set. Export it or add to config.json")
                /\ cash' = cash
           ELSE IF withdraw_to = ""
           THEN ErrorExit("WITHDRAW_TO not configured") /\ cash' = cash
           ELSE IF ToChecksum(withdraw_to) = None
           THEN /\ ErrorExit("WITHDRAW_TO is not a valid Ethereum address")
                /\ cash' = cash
           ELSE IF args.to # None /\ The(args.to) # ""
                   /\ ToChecksum(The(args.to)) = None
           THEN /\ ErrorExit("--to is not a valid Ethereum address")
                /\ cash' = cash
           ELSE IF args.to # None /\ The(args.to) # ""
                   /\ ToChecksum(The(args.to)) # ToChecksum(withdraw_to)
           THEN ErrorExit("Address mismatch") /\ cash' = cash
           ELSE /\ cash' = [cash EXCEPT !.withdraw_to = ToChecksum(withdraw_to)]
                /\ pc' = "resolved"
                /\ UNCHANGED <<stdout, exitCode, raised>>
  /\ UNCHANGED cashRest

\* connecting, Account.from_key and the two balanceOf calls
CashConnect ==
  /\ tool = "cashout"
  /\ pc = "resolved"
  /\ IF ~cash.connected
     THEN ErrorExit("Cannot connect to RPC") /\ cash' = cash
     ELSE IF The(cfg).PRIVATE_KEY \notin GoodKeys
     THEN Crash("ValueError") /\ cash' = cash
     ELSE /\ cash' = [cash EXCEPT !.vault_bal = Some(cash.chain.vault),
                                  !.wallet_bal = Some(cash.chain.wallet)]
          /\ pc' = "connected"
          /\ UNCHANGED <<stdout, exitCode, raised>>
  /\ UNCHANGED <<cfg>>
  /\ UNCHANGED cashRest

\* max(0, n)
Max0(n) == IF n > 0 THEN n ELSE 0
\* variant: the run is never taken for a dry run
IsDryRun_Never(a) == FALSE
\* `not args.confirm`
IsDryRun(a) == ~a.confirm

\* the amount, the plan, and the end of a dry run
CashPlan ==
  /\ tool = "cashout"
  /\ pc = "connected"
  /\ LET vault_bal == The(cash.vault_bal)
         wallet_bal == The(cash.wallet_bal)
         total_available == vault_bal + wallet_bal
         given == args.amount # None
         transfer_raw == IF given THEN AmountRaw(args.amount).val
                         ELSE total_available
         need_from_vault == Max0(transfer_raw - wallet_bal)
         plan == [success |-> TRUE, dryRun |-> ~args.confirm,
                  from |-> Address(The(cfg).PRIVATE_KEY),
                  to |-> The(cash.withdraw_to),
                  transfer_raw |-> transfer_raw,
                  need_from_vault |-> need_from_vault]
     IN IF given /\ FloatLeZero(ParseFloat(The(args.amount)))
        THEN ErrorExit("--amount must be positive") /\ cash' = cash
        ELSE IF given /\ AmountRaw(args.amount).raised
        THEN Crash("ValueError") /\ cash' = cash
        ELSE IF given /\ transfer_raw > total_available
        THEN ErrorExit("Requested more than available") /\ cash' = cash
        ELSE IF transfer_raw = 0
        THEN ErrorExit("No USDC available to transfer") /\ cash' = cash
        ELSE IF IsDryRun(args)
        THEN /\ stdout' = Append(stdout,
                                 plan @@ [message |-> "DRY RUN"])
             /\ exitCode' = Some(0)
             /\ raised' = NoExc
             /\ pc' = "exit"
             /\ cash' = cash
        ELSE /\ cash' = [cash EXCEPT !.plan = Some(plan)]
             /\ pc' = "execute"
             /\ UNCHANGED <<stdout, exitCode, raised>>
  /\ UNCHANGED <<cfg>>
  /\ UNCHANGED cashRest

\* send_tx: the transaction is mined, with success when the contract
\* accepts it, or send_raw_transaction raises; the receipt's status is not
\* looked at
Mined(kind, amount, dest, ok) ==
  [kind |-> kind, amount |-> amount, to |-> dest,
   status |-> IF ok THEN "success" ELSE "reverted"]

\* step 1: vault.withdraw(need_from_vault)
CashWithdraw ==
  /\ tool = "cashout"
  /\ pc = "execute"
  /\ The(cash.plan).need_from_vault > 0
  /\ LET n == The(cash.plan).need_from_vault
     IN \/ \E ok \in {FALSE, cash.chain.vault >= n} :
             /\ cash' = [cash EXCEPT
                           !.txs = Append(@, Mined("withdraw", n, "vault", ok)),
                           !.chain = IF ok
                                     THEN [vault |-> @.vault - n,
                                           wallet |-> @.wallet + n]
                                     ELSE @]
             /\ pc' = "withdrawn"
             /\ UNCHANGED <<stdout, exitCode, raised>>
        \/ Crash("RPCError") /\ cash' = cash
  /\ UNCHANGED <<cfg>>
  /\ UNCHANGED cashRest

\* step 2: usdc.transfer(withdraw_to, will_send), the final balances and
\* the output
CashTransfer ==
  /\ tool = "cashout"
  /\ \/ pc = "withdrawn"
     \/ pc = "execute" /\ The(cash.plan).need_from_vault = 0
  /\ LET will_send == The(cash.plan).transfer_raw
         dest == The(cash.withdraw_to)
     IN \/ \E ok \in {FALSE, cash.chain.wallet >= will_send} :
             LET after == IF ok
                          THEN [cash.chain EXCEPT !.wallet = @ - will_send]
                          ELSE cash.chain
             IN /\ cash' = [cash EXCEPT
                              !.txs = Append(@, Mined("transfer", will_send,
                                                      dest, ok)),
                              !.chain = after]
                /\ stdout' = Append(stdout,
                                    [success |-> TRUE, dryRun |-> FALSE,
                                     transferred |-> will_send, to |-> dest,
                                     txHashes |-> Len(cash.txs) + 1,
                                     remainingVault |-> after.vault,
                                     remainingWallet |-> after.wallet])
                /\ exitCode' = Some(0)
                /\ raised' = NoExc
                /\ pc' = "exit"
        \/ Crash("RPCError") /\ cash' = cash
  /\ UNCHANGED <<cfg>>
  /\ UNCHANGED cashRest

NextCash ==
  CashResolve \/ CashConnect \/ CashPlan \/ CashWithdraw \/ CashTransfer

SpecCash == InitCash /\ [][NextCash]_vars

(***************************************************************************)
(* sign_order.py --type order and then place_order.py, run on the same     *)
(* command line and the same configuration sources                         *)
(***************************************************************************)
\* command lines that give --nonce and --expiry
PairArgs == {a \in ArgSpace : a.nonce # None /\ a.expiry # None}

InitPair ==
  /\ tool = "sign_order"
  /\ args \in PairArgs
  /\ sources \in CliSources
  /\ cfg = None
  /\ pc = "start"
  /\ order = None
  /\ signable = None
  /\ payload = None
  /\ posts = <<>>
  /\ stdout = <<>>
  /\ exitCode = None
  /\ raised = NoExc
  /\ signLog = {}
  /\ cancelData = None
  /\ cancelLog = {}
  /\ calls = None
  /\ cash = None
  /\ pair = None
  /\ vault = None
  /\ ready = None
  /\ ws = None

\* sign_order.py has ended: its outcome is kept and place_order.py is
\* started as a new process with the same options
RunPlaceOrder ==
  /\ tool = "sign_order"
  /\ pc = "exit"
  /\ pair = None
  /\ pair' = Some([payload |-> payload, stdout |-> stdout,
                   exitCode |-> exitCode, raised |-> raised])
  /\ tool' = "place_order"
  /\ cfg' = None
  /\ pc' = "start"
  /\ order' = None
  /\ signable' = None
  /\ payload' = None
  /\ stdout' = <<>>
  /\ exitCode' = None
  /\ raised' = NoExc
  /\ UNCHANGED <<args, posts, signLog, sources, cancelData, cancelLog, calls,
                 cash, vault, ready, ws>>

NextPair == Startup \/ Prepare \/ Sign \/ Emit \/ RunPlaceOrder \/ Submit

SpecPair == InitPair /\ [][NextPair]_vars

(***************************************************************************)
(* One invocation of vault_ops.py.  The chain is the agent's USDC          *)
(* allowance to the vault, its wallet and vault balances and its YES and   *)
(* NO shares of the market, in raw units.                                  *)
(***************************************************************************)
Actions == {"deposit", "withdraw", "balance", "mint", "merge", "claim"}
\* --amount values: 5, 0.0000015, 0.0000005, 0, -5, nan
VaultAmounts ==
  {Dec(5, 0), Dec(15, 7), Dec(5, 7), Dec(0, 0), NegDec(5, 0), NaNText}
VaultArgs ==
  [action : Opt(Actions), amount : Opt(VaultAmounts),
   market_id : Opt({0}), address : {None}]
  \cup [action : {Some("balance")}, amount : {None}, market_id : Opt({0}),
        address : {Some("0xaa"), Some("junk"), Some("")}]
\* the environment holds a key, no key, or a key that is no key
VaultSources ==
  {SourcesOf(k, EmptyDict) : k \in DictsOf("PRIVATE_KEY", {"k1", "malformed"})}
VaultChains ==
  [allowance : {0, 5000000}, wallet : {5000000}, vault : {0, 5000000},
   yes : {0, 1000000}, no : {0, 1000000}]
\* 2 ** 256 - 1, the allowance that deposit approves: above every amount
MAX_UINT256 == 2000000000

InitVault ==
  /\ tool = "vault_ops"
  /\ args \in VaultArgs
  /\ sources \in VaultSources
  /\ cfg = None
  /\ pc = "start"
  /\ order = None
  /\ signable = None
  /\ payload = None
  /\ posts = <<>>
  /\ stdout = <<>>
  /\ exitCode = None
  /\ raised = NoExc
  /\ signLog = {}
  /\ cancelData = None
  /\ cancelLog = {}
  /\ calls = None
  /\ cash = None
  /\ pair = None
  /\ \E chain \in VaultChains : \E connected \in BOOLEAN :
       vault = [chain |-> chain, connected |-> connected,
                amount_raw |-> None, allowance |-> None, shares |-> None,
                txs |-> <<>>]
  /\ ready = None
  /\ ws = None

\* what every step of vault_ops.py leaves alone
vaultRest ==
  <<tool, args, order, signable, payload, posts, signLog, sources,
    cancelData, cancelLog, calls, cash, pair, ready, ws>>

\* output(data) followed by the end of main
OutputExit(data) ==
  /\ stdout' = Append(stdout, data)
  /\ exitCode' = Some(0)
  /\ raised' = NoExc
  /\ pc' = "exit"

\* parse_args, load_config, the connection and the three contracts
VaultConnect ==
  /\ tool = "vault_ops"
  /\ pc = "start"
  /\ LET loaded == load_config(sources)
     IN IF args.action = None
        THEN UsageExit /\ cfg' = cfg
        ELSE IF loaded.raised
        THEN Crash("ValueError") /\ cfg' = cfg
        ELSE /\ cfg' = Some(loaded.cfg)
             /\ IF ~vault.connected
                THEN ErrorExit("Cannot connect to RPC")
                ELSE IF ToChecksum(loaded.cfg.EXCHANGE_ADDRESS) = None
                THEN Crash("ValueError")
                ELSE /\ pc' = "connected"
                     /\ UNCHANGED <<stdout, exitCode, raised>>
  /\ UNCHANGED vault
  /\ UNCHANGED vaultRest

\* --action balance
VaultBalance ==
  /\ tool = "vault_ops"
  /\ pc = "connected"
  /\ args.action = Some("balance")
  /\ LET pk == The(cfg).PRIVATE_KEY
         given == args.address # None /\ The(args.address) # ""
         address == IF given THEN ToChecksum(The(args.address))
                    ELSE IF pk \in GoodKeys THEN Some(Address(pk)) ELSE None
         result == [success |-> TRUE, action |-> "balance",
                    address |-> The(address),
                    vaultBalanceRaw |-> vault.chain.vault,
                    walletUSDCRaw |-> vault.chain.wallet]
         shares == [shares |-> [marketId |-> The(args.market_id),
                                yesRaw |-> vault.chain.yes,
                                noRaw |-> vault.chain.no]]
     IN IF ~given /\ pk = ""
        THEN ErrorExit("PRIVATE_KEY not set. Export it or add to config.json")
        ELSE IF address = None
        THEN Crash("ValueError")
        ELSE OutputExit(IF args.market_id # None THEN result @@ shares
                        ELSE result)
  /\ UNCHANGED <<cfg, vault>>
  /\ UNCHANGED vaultRest

\* require_private_key and account.from_key of the actions that send
VaultAccount ==
  /\ tool = "vault_ops"
  /\ pc = "connected"
  /\ args.action # Some("balance")
  /\ IF The(cfg).PRIVATE_KEY = ""
     THEN ErrorExit("PRIVATE_KEY not set. Export it or add to config.json")
     ELSE IF The(cfg).PRIVATE_KEY \notin GoodKeys
     THEN Crash("ValueError")
     ELSE pc' = "account" /\ UNCHANGED <<stdout, exitCode, raised>>
  /\ UNCHANGED <<cfg, vault>>
  /\ UNCHANGED vaultRest

\* `args.amount is None or args.amount <= 0`
AmountRejected(a) ==
  a.amount = None \/ FloatLeZero(ParseFloat(The(a.amount)))

\* what the contracts do to the chain when a transaction succeeds, and
\* whether they accept it
Accepts(chain, kind, n) ==
  CASE kind = "approve" -> TRUE
    [] kind = "deposit" -> chain.allowance >= n /\ chain.wallet >= n
    [] kind = "withdraw" -> chain.vault >= n
    [] kind = "mintShares" -> chain.vault >= n
    [] kind = "mergeShares" -> chain.yes >= n /\ chain.no >= n
    [] kind = "claimWinnings" -> TRUE
Effect(chain, kind, n) ==
  CASE kind = "approve" -> [chain EXCEPT !.allowance = n]
    [] kind = "deposit" ->
         [chain EXCEPT !.wallet = @ - n, !.vault = @ + n]
    [] kind = "withdraw" ->
         [chain EXCEPT !.wallet = @ + n, !.vault = @ - n]
    [] kind = "mintShares" ->
         [chain EXCEPT !.vault = @ - n, !.yes = @ + n, !.no = @ + n]
    [] kind = "mergeShares" ->
         [chain EXCEPT !.vault = @ + n, !.yes = @ - n, !.no = @ - n]
    [] kind = "claimWinnings" ->
         [chain EXCEPT !.vault = @ + chain.yes, !.yes = 0, !.no = 0]

\* send_tx(tx) of a transaction kind(n) that is mined: what `vault` may be
\* afterwards.  It succeeds only when the contract accepts it, and the
\* receipt's status is not looked at.
SendTx(kind, n) ==
  {[vault EXCEPT
      !.txs = Append(@, [kind |-> kind, amount |-> n,
                         status |-> IF ok THEN "success" ELSE "reverted"]),
      !.chain = IF ok THEN Effect(@, kind, n) ELSE @,
      !.shares = IF kind = "claimWinnings"
                 THEN Some([yes |-> vault.chain.yes, no |-> vault.chain.no])
                 ELSE @] : ok \in {FALSE, Accepts(vault.chain, kind, n)}}
\* send_raw_transaction raises
SendFails == Crash("RPCError") /\ vault' = vault

\* --action deposit up to the reading of the allowance
DepositCheck ==
  /\ tool = "vault_ops"
  /\ pc = "account"
  /\ args.action = Some("deposit")
  /\ IF AmountRejected(args)
     THEN /\ ErrorExit("--amount is required and must be positive for deposit")
          /\ vault' = vault
     ELSE IF AmountRaw(args.amount).raised
     THEN Crash("ValueError") /\ vault' = vault
     ELSE /\ vault' = [vault EXCEPT
                         !.amount_raw = Some(AmountRaw(args.amount).val),
                         !.allowance = Some(vault.chain.allowance)]
          /\ pc' = "allowance"
          /\ UNCHANGED <<stdout, exitCode, raised>>
  /\ UNCHANGED cfg
  /\ UNCHANGED vaultRest

\* `if allowance < amount_raw`
NeedsApprove(allowance, amount_raw) == allowance < amount_raw

\* the approve transaction
DepositApprove ==
  /\ tool = "vault_ops"
  /\ pc = "allowance"
  /\ NeedsApprove(The(vault.allowance), The(vault.amount_raw))
  /\ \/ /\ vault' \in SendTx("approve", MAX_UINT256)
        /\ pc' = "approved"
        /\ UNCHANGED <<stdout, exitCode, raised>>
     \/ SendFails
  /\ UNCHANGED cfg
  /\ UNCHANGED vaultRest

\* the deposit transaction and the output
DepositSend ==
  /\ tool = "vault_ops"
  /\ \/ pc = "approved"
     \/ /\ pc = "allowance"
        /\ ~NeedsApprove(The(vault.allowance), The(vault.amount_raw))
  /\ \/ /\ vault' \in SendTx("deposit", The(vault.amount_raw))
        /\ OutputExit([success |-> TRUE, action |-> "deposit",
                       amount |-> The(args.amount),
                       txHash |-> Len(vault.txs) + 1,
                       newBalance |-> vault'.chain.vault])
     \/ SendFails
  /\ UNCHANGED cfg
  /\ UNCHANGED vaultRest

\* --action withdraw, mint or merge: the tests, the transaction, the output
VaultAmountAction ==
  /\ tool = "vault_ops"
  /\ pc = "account"
  /\ The(args.action) \in {"withdraw", "mint", "merge"}
  /\ LET action == The(args.action)
         kind == CASE action = "withdraw" -> "withdraw"
                   [] action = "mint" -> "mintShares"
                   [] action = "merge" -> "mergeShares"
     IN IF action # "withdraw" /\ args.market_id = None
        THEN /\ ErrorExit(IF action = "mint"
                          THEN "--market-id is required for mint"
                          ELSE "--market-id is required for merge")
             /\ vault' = vault
        ELSE IF AmountRejected(args)
        THEN /\ ErrorExit("--amount is required and must be positive")
             /\ vault' = vault
        ELSE IF AmountRaw(args.amount).raised
        THEN Crash("ValueError") /\ vault' = vault
        ELSE \/ /\ vault' \in SendTx(kind, AmountRaw(args.amount).val)
                /\ OutputExit([success |-> TRUE, action |-> action,
                               amount |-> The(args.amount),
                               txHash |-> Len(vault.txs) + 1,
                               vaultBalance |-> vault'.chain.vault,
                               yesShares |-> vault'.chain.yes,
                               noShares |-> vault'.chain.no])
             \/ SendFails
  /\ UNCHANGED cfg
  /\ UNCHANGED vaultRest

\* variant: the claim is sent without looking at the shares
NoShares_Never(yes, no) == FALSE
\* `if yes == 0 and no == 0`
NoShares(yes, no) == yes = 0 /\ no = 0

\* --action claim
VaultClaim ==
  /\ tool = "vault_ops"
  /\ pc = "account"
  /\ args.action = Some("claim")
  /\ LET yes == vault.chain.yes
         no == vault.chain.no
     IN IF args.market_id = None
        THEN ErrorExit("--market-id is required for claim") /\ vault' = vault
        ELSE IF NoShares(yes, no)
        THEN /\ OutputExit([success |-> TRUE, action |-> "claim",
                            marketId |-> The(args.market_id),
                            message |-> "No shares to claim",
                            yesShares |-> 0, noShares |-> 0])
             /\ vault' = [vault EXCEPT
                            !.shares = Some([yes |-> yes, no |-> no])]
        ELSE \/ /\ vault' \in SendTx("claimWinnings", 0)
                /\ OutputExit([success |-> TRUE, action |-> "claim",
                               marketId |-> The(args.market_id),
                               txHash |-> Len(vault.txs) + 1,
                               claimedYesShares |-> yes,
                               claimedNoShares |-> no,
                               newVaultBalance |-> vault'.chain.vault])
             \/ SendFails
  /\ UNCHANGED cfg
  /\ UNCHANGED vaultRest

NextVault ==
  \/ VaultConnect \/ VaultBalance \/ VaultAccount
  \/ DepositCheck \/ DepositApprove \/ DepositSend
  \/ VaultAmountAction \/ VaultClaim

SpecVault == InitVault /\ [][NextVault]_vars

(***************************************************************************)
(* One invocation of ready_check.py.  What the machine, the exchange and   *)
(* the chain answer is chosen when each check asks.                        *)
(***************************************************************************)
CheckNames == <<"deps", "config", "network", "rpc", "mon", "vault">>
Packages == {"eth_account", "web3", "requests", "websockets"}

\* check_deps() when the packages in `missing` cannot be imported
check_deps(missing) ==
  IF missing # {} THEN [status |-> "FAIL", err |-> Some("Missing packages")]
  ELSE [status |-> "PASS", err |-> None]

\* check_config(cfg)
check_config(c) ==
  IF c.PRIVATE_KEY = ""
  THEN [status |-> "FAIL", err |-> Some("PRIVATE_KEY not set"),
        address |-> None]
  ELSE IF c.PRIVATE_KEY \notin GoodKeys
  THEN [status |-> "FAIL", err |-> Some("Cannot derive address from PRIVATE_KEY"),
        address |-> None]
  ELSE [status |-> "PASS", err |-> None,
        address |-> Some(Address(c.PRIVATE_KEY))]

\* check_network(cfg): the answer is an HTTP status or an exception
NetworkAnswers == {"200", "500", "ConnectionError", "Timeout", "Exception"}
check_network(answer) ==
  CASE answer = "200" -> [status |-> "PASS", err |-> None]
    [] answer = "500" ->
         [status |-> "FAIL", err |-> Some("Exchange returned HTTP 500")]
    [] answer = "ConnectionError" ->
         [status |-> "FAIL", err |-> Some("Cannot connect to exchange")]
    [] answer = "Timeout" ->
         [status |-> "FAIL", err |-> Some("Exchange timed out")]
    [] OTHER -> [status |-> "FAIL", err |-> Some("Exchange check failed")]

\* check_rpc(cfg): the node reports a chain id, or the call raises (None)
RpcAnswers == {None} \cup {Some(id) : id \in ChainIds}
check_rpc(c, answer) ==
  IF answer = None
  THEN [status |-> "FAIL", err |-> Some("Cannot connect to RPC")]
  ELSE IF The(answer) # c.CHAIN_ID
  THEN [status |-> "FAIL", err |-> Some("Chain ID mismatch")]
  ELSE [status |-> "PASS", err |-> None]

\* check_mon(cfg, address): the balance in wei, or the call raises (None)
MonAnswers == {None, Some(0), Some(3)}
check_mon(answer) ==
  IF answer = None
  THEN [status |-> "FAIL", err |-> Some("Cannot check MON balance"), mon |-> 0]
  ELSE IF The(answer) > 0
  THEN [status |-> "PASS", err |-> None, mon |-> The(answer)]
  ELSE [status |-> "FAIL", err |-> Some("No MON balance"), mon |-> 0]

\* check_vault(cfg, address) after its addresses were accepted: the two
\* balances, or a call raises (None)
BalanceAnswers ==
  {None} \cup {Some(b) : b \in [vault : {0, 5000000}, wallet : {0, 1000000}]}
check_vault(answer) ==
  IF answer = None
  THEN [status |-> "FAIL", err |-> Some("Cannot check balances"),
        vault_usdc |-> 0, wallet_usdc |-> 0]
  ELSE IF The(answer).vault > 0 \/ The(answer).wallet > 0
  THEN [status |-> "PASS", err |-> None,
        vault_usdc |-> The(answer).vault, wallet_usdc |-> The(answer).wallet]
  ELSE [status |-> "FAIL", err |-> Some("No USDC in vault or wallet"),
        vault_usdc |-> 0, wallet_usdc |-> 0]

InitReady ==
  /\ tool = "ready_check"
  /\ args = None
  /\ sources \in CliSources
  /\ cfg = None
  /\ pc = "start"
  /\ order = None
  /\ signable = None
  /\ payload = None
  /\ posts = <<>>
  /\ stdout = <<>>
  /\ exitCode = None
  /\ raised = NoExc
  /\ signLog = {}
  /\ cancelData = None
  /\ cancelLog = {}
  /\ calls = None
  /\ cash = None
  /\ pair = None
  /\ vault = None
  /\ ready = [checks |-> EmptyDict, failures |-> <<>>, address |-> None,
              details |-> EmptyDict, called |-> {}]
  /\ ws = None

\* what every step of ready_check.py leaves alone
readyRest ==
  <<tool, args, order, signable, payload, posts, signLog, sources,
    cancelData, cancelLog, calls, cash, pair, vault, ws>>
Running == UNCHANGED <<stdout, exitCode, raised>>

\* checks[name] = status; if err: failures.append((LABEL, err))
Record(r, name, result) ==
  [r EXCEPT !.checks = (name :> result.status) @@ @,
            !.failures = IF result.err # None
                         THEN Append(@, [label |-> name,
                                         msg |-> The(result.err)])
                         ELSE @,
            !.called = @ \cup {name}]
Skip(r, name) == [r EXCEPT !.checks = (name :> "SKIP") @@ @]
\* checks.get("deps") == "PASS"
DepsPass == DictGet(ready.checks, "deps", "") = "PASS"

\* load_config() and the empty collections
ReadyLoad ==
  /\ tool = "ready_check"
  /\ pc = "start"
  /\ LET loaded == load_config(sources)
     IN IF loaded.raised
        THEN Crash("ValueError") /\ cfg' = cfg
        ELSE cfg' = Some(loaded.cfg) /\ pc' = "deps" /\ Running
  /\ UNCHANGED ready
  /\ UNCHANGED readyRest

\* 1. Dependencies
CheckDeps ==
  /\ tool = "ready_check"
  /\ pc = "deps"
  /\ \E missing \in {m \in SUBSET Packages : Cardinality(m) <= 1} :
       ready' = Record(ready, "deps", check_deps(missing))
  /\ pc' = "config"
  /\ Running
  /\ UNCHANGED cfg
  /\ UNCHANGED readyRest

\* 2. Config / PRIVATE_KEY
CheckConfig ==
  /\ tool = "ready_check"
  /\ pc = "config"
  /\ IF DepsPass
     THEN LET result == check_config(The(cfg))
              r == Record(ready, "config", result)
          IN ready' = IF result.err # None THEN r
                      ELSE [r EXCEPT !.address = result.address,
                                     !.details = ("address" :> The(result.address)) @@ @]
     ELSE ready' = Skip(ready, "config")
  /\ pc' = "network"
  /\ Running
  /\ UNCHANGED cfg
  /\ UNCHANGED readyRest

\* 3. Network (Exchange API)
CheckNetwork ==
  /\ tool = "ready_check"
  /\ pc = "network"
  /\ IF DepsPass
     THEN \E answer \in NetworkAnswers :
            ready' = Record(ready, "network", check_network(answer))
     ELSE ready' = Skip(ready, "network")
  /\ pc' = "rpc"
  /\ Running
  /\ UNCHANGED cfg
  /\ UNCHANGED readyRest

\* 4. RPC
CheckRpc ==
  /\ tool = "ready_check"
  /\ pc = "rpc"
  /\ IF DepsPass
     THEN \E answer \in RpcAnswers :
            ready' = Record(ready, "rpc", check_rpc(The(cfg), answer))
     ELSE ready' = Skip(ready, "rpc")
  /\ pc' = "mon"
  /\ Running
  /\ UNCHANGED cfg
  /\ UNCHANGED readyRest

\* variant: the balance checks run as soon as there is an address
NeedsChain_AddressOnly(r) == r.address # None
\* `address and checks.get("rpc") == "PASS"`
NeedsChain(r) ==
  r.address # None /\ DictGet(r.checks, "rpc", "") = "PASS"

\* 5. MON balance
CheckMon ==
  /\ tool = "ready_check"
  /\ pc = "mon"
  /\ IF NeedsChain(ready)
     THEN \E answer \in MonAnswers :
            LET result == check_mon(answer)
            IN ready' = [Record(ready, "mon", result) EXCEPT
                           !.details = ("monBalance" :> Str(result.mon)) @@ @]
     ELSE ready' = Skip(ready, "mon")
  /\ pc' = "vault"
  /\ Running
  /\ UNCHANGED cfg
  /\ UNCHANGED readyRest

\* 6. Vault/USDC balance; to_checksum_address of a configured address that
\* is no address raises outside the try of check_vault
CheckVault ==
  /\ tool = "ready_check"
  /\ pc = "vault"
  /\ IF NeedsChain(ready)
     THEN \/ \E answer \in BalanceAnswers :
               LET result == check_vault(answer)
               IN /\ ready' = [Record(ready, "vault", result) EXCEPT
                                 !.details = ("vaultUSDC" :> Str(result.vault_usdc))
                                             @@ ("walletUSDC" :> Str(result.wallet_usdc))
                                             @@ @]
                  /\ pc' = "summary"
                  /\ Running
          \/ /\ Crash("ValueError")
             /\ ready' = [ready EXCEPT !.called = @ \cup {"vault"}]
     ELSE ready' = Skip(ready, "vault") /\ pc' = "summary" /\ Running
  /\ UNCHANGED cfg
  /\ UNCHANGED readyRest

\* the summary, the JSON object and sys.exit
ReadySummary ==
  /\ tool = "ready_check"
  /\ pc = "summary"
  /\ LET success == Len(ready.failures) = 0
     IN /\ stdout' = Append(stdout,
                            [success |-> success, checks |-> ready.checks,
                             summary |-> IF success
                                         THEN "GREEN LIGHT - ready to trade"
                                         ELSE "check(s) failed",
                             failed |-> ready.failures,
                             details |-> ready.details])
        /\ exitCode' = Some(IF success THEN 0 ELSE 1)
  /\ raised' = NoExc
  /\ pc' = "exit"
  /\ UNCHANGED <<cfg, ready>>
  /\ UNCHANGED readyRest

NextReady ==
  \/ ReadyLoad \/ CheckDeps \/ CheckConfig \/ CheckNetwork \/ CheckRpc
  \/ CheckMon \/ CheckVault \/ ReadySummary

SpecReady == InitReady /\ [][NextReady]_vars

(***************************************************************************)
(* One invocation of ws_listener.py.  Time is counted in seconds; it       *)
(* advances while the program waits and, by at most one second, between    *)
(* two readings of the clock.                                              *)
(***************************************************************************)
\* the exchange sends at most MaxMessages messages
MaxMessages == 2
\* --duration values and --filter values: not given, given without a type,
\* given with one type
Durations == {0 - 1, 0, 2, 7}
Filters == {None, Some(<<>>), Some(<<"trade">>)}
WsArgs == [duration : Durations, filter : Filters]
\* the longest wait for one message, in seconds
RECV_TIMEOUT == 5

\* what arrives: a text that is no JSON, a JSON array, and JSON objects
\* with and without a "type"
RawMessages ==
  {[json |-> FALSE, dict |-> FALSE, type |-> None],
   [json |-> TRUE, dict |-> FALSE, type |-> None]}
  \cup [json : {TRUE}, dict : {TRUE},
        type : Opt({"trade", "market_created"})]

InitWs ==
  /\ tool = "ws_listener"
  /\ args \in WsArgs
  /\ sources \in {KeyInEnv,
                  SourcesOf(("PRIVATE_KEY" :> "k1") @@ ("CHAIN_ID" :> <<>>),
                            EmptyDict)}
  /\ cfg = None
  /\ pc = "start"
  /\ order = None
  /\ signable = None
  /\ payload = None
  /\ posts = <<>>
  /\ stdout = <<>>
  /\ exitCode = None
  /\ raised = NoExc
  /\ signLog = {}
  /\ cancelData = None
  /\ cancelLog = {}
  /\ calls = None
  /\ cash = None
  /\ pair = None
  /\ vault = None
  /\ ready = None
  /\ ws = [now |-> 0, start |-> None, events |-> <<>>, timeout |-> None,
           received |-> 0, waits |-> <<>>]

\* what every step of ws_listener.py leaves alone
wsRest ==
  <<tool, args, order, signable, payload, posts, signLog, sources,
    cancelData, cancelLog, calls, cash, pair, vault, ready>>

\* main up to asyncio.run(listen(...))
WsMain ==
  /\ tool = "ws_listener"
  /\ pc = "start"
  /\ LET loaded == load_config(sources)
     IN IF loaded.raised
        THEN Crash("ValueError") /\ cfg' = cfg
        ELSE cfg' = Some(loaded.cfg) /\ pc' = "import" /\ Running
  /\ UNCHANGED ws
  /\ UNCHANGED wsRest

\* listen: the import of websockets, events = [], start = time.time()
WsImport ==
  /\ tool = "ws_listener"
  /\ pc = "import"
  /\ \/ /\ ErrorExit("websockets package not installed. Run: pip install websockets")
        /\ ws' = ws
     \/ /\ ws' = [ws EXCEPT !.start = Some(ws.now)]
        /\ pc' = "connect"
        /\ Running
  /\ UNCHANGED cfg
  /\ UNCHANGED wsRest

\* websockets.connect(ws_url): the connection opens, or it raises and the
\* outer handler records the error
WsConnect ==
  /\ tool = "ws_listener"
  /\ pc = "connect"
  /\ \E d \in {0, 1} :
       \/ ws' = [ws EXCEPT !.now = @ + d,
                           !.events = Append(@, [event |-> "connected"])]
          /\ pc' = "loop"
       \/ ws' = [ws EXCEPT !.now = @ + d,
                           !.events = Append(@, [event |-> "error"])]
          /\ pc' = "summary"
  /\ Running
  /\ UNCHANGED cfg
  /\ UNCHANGED wsRest

\* min(remaining, 5.0)
Min(a, b) == IF a < b THEN a ELSE b

\* the head of the while loop: the test, remaining, and the break
WsLoop ==
  /\ tool = "ws_listener"
  /\ pc = "loop"
  /\ IF ~(ws.now - The(ws.start) < args.duration)
     THEN ws' = ws /\ pc' = "summary"
     ELSE \E d \in {0, 1} :
            LET remaining == args.duration - ((ws.now + d) - The(ws.start))
            IN IF remaining <= 0
               THEN ws' = [ws EXCEPT !.now = @ + d] /\ pc' = "summary"
               ELSE /\ ws' = [ws EXCEPT
                                !.now = @ + d,
                                !.timeout = Some(Min(remaining, RECV_TIMEOUT)),
                                !.waits = Append(@, [at |-> ws.now + d,
                                                     timeout |-> Min(remaining, RECV_TIMEOUT)])]
                    /\ pc' = "recv"
  /\ Running
  /\ UNCHANGED cfg
  /\ UNCHANGED wsRest

\* `if event_filter`: not None and not empty
HasFilter(event_filter) == event_filter # None /\ The(event_filter) # <<>>
\* event_type in event_filter, with data.get("type", "")
InFilter(raw, event_filter) ==
  \E i \in 1..Len(The(event_filter)) :
    The(event_filter)[i] = (IF raw.type = None THEN "" ELSE The(raw.type))

\* await asyncio.wait_for(ws.recv(), timeout) and the rest of the loop body
WsRecv ==
  /\ tool = "ws_listener"
  /\ pc = "recv"
  /\ \/ \* asyncio.TimeoutError: continue
        /\ ws' = [ws EXCEPT !.now = @ + The(ws.timeout), !.timeout = None]
        /\ pc' = "loop"
        /\ stdout' = stdout
     \/ \* the connection fails: break
        /\ \E e \in 0..The(ws.timeout) :
             ws' = [ws EXCEPT !.now = @ + e, !.timeout = None]
        /\ pc' = "summary"
        /\ stdout' = stdout
     \/ \* a message arrives
        /\ ws.received < MaxMessages
        /\ \E e \in 0..The(ws.timeout) : \E raw \in RawMessages :
             LET at == ws.now + e
                 w == [ws EXCEPT !.now = at, !.timeout = None,
                                 !.received = @ + 1]
             IN IF ~raw.json \/ ~raw.dict
                THEN ws' = w /\ pc' = "summary" /\ stdout' = stdout
                ELSE IF HasFilter(args.filter) /\ ~InFilter(raw, args.filter)
                THEN ws' = w /\ pc' = "loop" /\ stdout' = stdout
                ELSE /\ ws' = [w EXCEPT !.events = Append(@, [event |-> "data"])]
                     /\ stdout' = Append(stdout,
                                         [type |-> raw.type,
                                          _receivedAt |-> at])
                     /\ pc' = "loop"
  /\ UNCHANGED <<exitCode, raised, cfg>>
  /\ UNCHANGED wsRest

\* the summary line, and the end of the run
WsSummary ==
  /\ tool = "ws_listener"
  /\ pc = "summary"
  /\ stdout' = Append(stdout, [event |-> "summary",
                               totalEvents |-> Len(ws.events),
                               duration |-> ws.now - The(ws.start)])
  /\ exitCode' = Some(0)
  /\ raised' = NoExc
  /\ pc' = "exit"
  /\ UNCHANGED <<cfg, ws>>
  /\ UNCHANGED wsRest

NextWs == WsMain \/ WsImport \/ WsConnect \/ WsLoop \/ WsRecv \/ WsSummary

SpecWs == InitWs /\ [][NextWs]_vars
\* the event loop keeps running the coroutine
SpecWsLive == SpecWs /\ WF_vars(NextWs)

(***************************************************************************)
(* Properties                                                              *)
(***************************************************************************)
\* the typed text of a decimal lies strictly between 0 and 1 / is <= 0
InUnitInterval(t) ==
  t.kind = "dec" /\ ~t.neg /\ t.num > 0 /\ t.num < Pow(10, t.scale)
NonPositive(t) ==
  \/ t.kind = "dec" /\ (t.neg \/ t.num = 0)
  \/ t.kind = "inf" /\ t.neg
StrictlyPositive(t) ==
  \/ t.kind = "dec" /\ ~t.neg /\ t.num > 0
  \/ t.kind = "inf" /\ ~t.neg

\* 10000 * p for a decimal p with at most four decimals
IsTickPrice(t) == InUnitInterval(t) /\ t.scale <= 4
ExactBps(t) == t.num * Pow(10, 4 - t.scale)
\* a * 10^6 rounded to the nearest integer, halves up, in exact arithmetic
NearestRaw(t) ==
  LET D == Pow(10, t.scale)
      q == t.num \div D
      r == t.num % D
  IN IF t.scale <= 6 THEN t.num * Pow(10, 6 - t.scale)
     ELSE LET U == Pow(10, t.scale - 6)
          IN q * 1000000 + (r + U \div 2) \div U

Signed == payload # None
Given(opt) == args # None /\ opt \in DOMAIN args /\ args[opt] # None

\* C1: every signed order payload of either entry point carries a price in
\* basis points with 0 < price < 10000, whatever --price was given.
C1_PriceInRange ==
  Signed => The(payload).price > 0 /\ The(payload).price < PRICE_PRECISION

\* C2: every signed order payload carries an amount > 0 in raw units; an
\* amount that is <= 0 or scales to 0 raw units is never signed or submitted.
C2_AmountPositive ==
  /\ Signed => IntOfStr(The(payload).amount) > 0
  /\ \A i \in 1..Len(posts) : IntOfStr(posts[i].json.order.amount) > 0

\* C3: a request whose price is not strictly inside (0,1) or whose amount is
\* <= 0 is rejected before any signature is computed or anything is sent.
C3_RejectedBeforeSigning ==
  (/\ Given("price") /\ Given("amount")
   /\ \/ ~InUnitInterval(The(args.price))
      \/ NonPositive(The(args.amount)))
  => signable = None /\ payload = None /\ posts = <<>>

\* C4: for a price p that is a multiple of 0.0001 with 0 < p < 1, the price
\* in the signed order is exactly 10000 * p, never one less.
C4_PriceExact ==
  (Signed /\ IsTickPrice(The(args.price)))
  => The(payload).price = ExactBps(The(args.price))

\* C5: for a positive amount a, the amount in the signed order is a * 10^6
\* rounded to the nearest integer (a half raw unit or more rounds up).
C5_AmountRounded ==
  (Signed /\ The(args.amount).kind = "dec" /\ StrictlyPositive(The(args.amount)))
  => IntOfStr(The(payload).amount) = NearestRaw(The(args.amount))

\* the domain and the message a verifier rebuilds from a payload and the
\* configuration
ConfiguredDomain(c) ==
  [name |-> "BlackjackExchange", version |-> "1", chainId |-> c.CHAIN_ID,
   verifyingContract |-> c.EXCHANGE_ADDRESS]
PayloadMessage(p) ==
  [trader |-> p.trader, marketId |-> p.marketId, isBuy |-> p.isBuy,
   isYes |-> p.isYes, price |-> p.price, amount |-> IntOfStr(p.amount),
   nonce |-> p.nonce, expiry |-> p.expiry]
PayloadDigest(c, p) ==
  encode_typed_data(ConfiguredDomain(c), ORDER_TYPES, PayloadMessage(p))
OrderFields ==
  {"trader", "marketId", "isBuy", "isYes", "price", "amount", "nonce",
   "expiry"}
FieldDiffs(p1, p2) == {f \in OrderFields : p1[f] # p2[f]}
SameDomain(c1, c2) ==
  c1.CHAIN_ID = c2.CHAIN_ID /\ c1.EXCHANGE_ADDRESS = c2.EXCHANGE_ADDRESS

\* C6: recovering the signer from the signature of a signed order payload,
\* over the digest of the payload's own fields and the configured domain,
\* yields the payload's trader, which is the address of the key used.
C6_RecoverTrader ==
  \A e \in signLog :
    /\ Recover(e.payload.signature.bytes, PayloadDigest(e.cfg, e.payload))
         = e.payload.trader
    /\ e.payload.trader = Address(e.cfg.PRIVATE_KEY)
C6_Witness ==
  \E e1, e2 \in signLog :
    /\ e1.payload.trader # e2.payload.trader
    /\ Recover(e1.payload.signature.bytes, PayloadDigest(e1.cfg, e1.payload))
         = "0xAddr1"
    /\ Recover(e2.payload.signature.bytes, PayloadDigest(e2.cfg, e2.payload))
         = "0xAddr2"

\* C7: for a fixed domain, two orders that differ in exactly one of trader,
\* marketId, isBuy, isYes, price, amount, nonce, expiry never have the same
\* digest.
C7_DigestInjective ==
  \A e1, e2 \in signLog :
    (SameDomain(e1.cfg, e2.cfg)
     /\ Cardinality(FieldDiffs(e1.payload, e2.payload)) = 1)
    => e1.signable # e2.signable
C7_Witness ==
  \E e1, e2 \in signLog :
    /\ SameDomain(e1.cfg, e2.cfg)
    /\ FieldDiffs(e1.payload, e2.payload) = {"expiry"}
    /\ e1.signable # e2.signable

\* C8: every order is signed under the domain BlackjackExchange / 1 / the
\* configuration's CHAIN_ID / the configuration's EXCHANGE_ADDRESS, and the
\* same order signed under configurations that differ in chain id or
\* exchange address has different digests.
C8_DomainFromConfig ==
  /\ \A e \in signLog : e.signable.domainSeparator = ConfiguredDomain(e.cfg)
  /\ \A e1, e2 \in signLog :
       (FieldDiffs(e1.payload, e2.payload) = {}
        /\ ~SameDomain(e1.cfg, e2.cfg))
       => e1.signable # e2.signable
C8_Witness ==
  \E e1, e2 \in signLog :
    /\ FieldDiffs(e1.payload, e2.payload) = {}
    /\ e1.cfg.CHAIN_ID # e2.cfg.CHAIN_ID
    /\ e1.signable # e2.signable

\* C9: a nonce the caller supplies (0 included) is the nonce of the signed
\* order; only without one is it the current time in milliseconds.
C9_NonceOverride ==
  Signed => IF Given("nonce")
            THEN The(payload).nonce = The(args.nonce)
            ELSE The(payload).nonce \in {NowMs(t) : t \in Clock}

\* C10: an expiry the caller supplies (0 included) is the expiry of the
\* signed order; only without one is it the current time in seconds + 3600.
C10_ExpiryOverride ==
  Signed => IF Given("expiry")
            THEN The(payload).expiry = The(args.expiry)
            ELSE The(payload).expiry
                   \in {NowSecs(t) + EXPIRY_DEFAULT_SECS : t \in Clock}


\* C11: the message of a cancel request is "Cancel order ", the order id, a
\* newline, "Timestamp: " and the decimal timestamp the call returns, and
\* two calls that differ in order id or timestamp never yield the same
\* message, whatever the order id holds
C11_CancelMessageInjective ==
  /\ \A e \in cancelLog :
       LET r == e.result
           n == Len(r.message)
           k == Len(CANCEL_PREFIX) + Len(e.order_id)
           d == Len(Str(r.timestamp))
       IN /\ r.orderId = e.order_id
          /\ r.timestamp = e.now
          /\ n = k + 1 + Len(TIMESTAMP_LABEL) + d
          /\ SubSeq(r.message, 1, Len(CANCEL_PREFIX)) = CANCEL_PREFIX
          /\ SubSeq(r.message, Len(CANCEL_PREFIX) + 1, k) = e.order_id
          /\ r.message[k + 1] = "\n"
          /\ SubSeq(r.message, k + 2, n - d) = TIMESTAMP_LABEL
          /\ IntOfStr(SubSeq(r.message, n - d + 1, n)) = r.timestamp
  /\ \A e1, e2 \in cancelLog :
       e1.result.message = e2.result.message
         => /\ e1.order_id = e2.order_id
            /\ e1.result.timestamp = e2.result.timestamp
\* two calls whose order ids differ only by the separating text, at
\* different times
C11_Witness ==
  \E e1, e2 \in cancelLog :
    /\ e1.order_id = <<"a">>
    /\ e2.order_id = <<"a">> \o NEWLINE \o TIMESTAMP_LABEL \o Str(e1.now)
    /\ e2.now # e1.now

\* C12: in every payload sign_order returns, trader, marketId, isBuy, isYes,
\* price, nonce and expiry are the values in the signed message, amount is
\* the decimal string of the signed integer amount, and signature is one
\* "0x" followed by the 130 hexadecimal digits of the signature of that
\* message.
WordOf(signed, field) ==
  signed.structHash.words[CHOOSE i \in 1..Len(ORDER_TYPES) :
                            ORDER_TYPES[i].name = field]
C12_PayloadIsWhatWasSigned ==
  \A e \in signLog :
    LET p == e.payload
        w(field) == WordOf(e.signable, field)
    IN /\ p.trader = w("trader")
       /\ p.marketId = w("marketId")
       /\ (IF p.isBuy THEN 1 ELSE 0) = w("isBuy")
       /\ (IF p.isYes THEN 1 ELSE 0) = w("isYes")
       /\ p.price = w("price")
       /\ p.nonce = w("nonce")
       /\ p.expiry = w("expiry")
       /\ p.amount = NatStr(w("amount"))
       /\ IntOfStr(p.amount) = e.args.amount_raw
       /\ p.signature.prefixes = 1
       /\ p.signature.digits = 130
       /\ p.signature.bytes.digest = e.signable
\* a payload whose amount takes eight digits, and one that sells "no"
C12_Witness ==
  \E e1, e2 \in signLog :
    /\ Len(e1.payload.amount) = 8
    /\ ~e2.payload.isBuy /\ ~e2.payload.isYes
    /\ e2.payload.signature.prefixes = 1

\* C13: a finished run of sign_order.py has printed exactly one JSON object
\* and either exits with 0 and the object says success, or exits with 1 and
\* the object is {success: false, error}; no run ends any other way.
C13_TwoOutcomes ==
  (tool = "sign_order" /\ pc = "exit")
  => /\ raised = NoExc
     /\ Len(stdout) = 1
     /\ \/ exitCode = Some(0) /\ stdout[1].success
        \/ /\ exitCode = Some(1)
           /\ DOMAIN stdout[1] = {"success", "error"}
           /\ ~stdout[1].success

\* C14: a run of an order or cancel tool whose configured private key is
\* missing or malformed ends with the error object on standard output, no
\* signature, and no unhandled exception.
BadKey == cfg # None /\ The(cfg).PRIVATE_KEY \notin GoodKeys
C14_BadKeyStructuredError ==
  (pc = "exit" /\ BadKey)
  => /\ raised = NoExc
     /\ exitCode = Some(1)
     /\ Len(stdout) = 1
     /\ DOMAIN stdout[1] = {"success", "error"}
     /\ payload = None
     /\ cancelData = None

\* C15: sign_order is never called with an empty exchange address or an
\* unresolved chain id; a run whose configuration lacks either ends with the
\* error object, before any signing.
UnresolvedConfig ==
  \/ load_config(sources).raised
  \/ load_config(sources).cfg.EXCHANGE_ADDRESS = ""
C15_ConfigCheckedBeforeSigning ==
  /\ (pc = "prepared" /\ IsOrderArgs(args))
       => The(cfg).EXCHANGE_ADDRESS # "" /\ The(cfg).CHAIN_ID > 0
  /\ (pc = "exit" /\ IsOrderArgs(args) /\ ~UsageError(tool, args)
        /\ UnresolvedConfig)
       => /\ raised = NoExc
          /\ exitCode = Some(1)
          /\ Len(stdout) = 1
          /\ DOMAIN stdout[1] = {"success", "error"}

\* C17: a run of place_order.py or cancel_order.py sends at most one
\* submission, the run is over once it is sent, and a run that reports a
\* failed submission has sent exactly one and exits with 1.
TransportErrors ==
  {ErrorObject("Failed to submit order"), ErrorObject("Failed to cancel order")}
C17_AtMostOneSubmission ==
  /\ Len(posts) <= 1
  /\ posts # <<>> => pc = "exit"
  /\ \A i \in 1..Len(stdout) :
       stdout[i] \in TransportErrors
         => Len(posts) = 1 /\ exitCode = Some(1) /\ raised = NoExc
                           /\ Len(stdout) = 1
\* place_order.py after its POST failed
C17_Witness ==
  /\ tool = "place_order"
  /\ pc = "exit"
  /\ stdout = <<ErrorObject("Failed to submit order")>>
  /\ Len(posts) = 1 /\ posts[1].method = "POST"

\* C16: load_config returns, for every key, the value of the first of the
\* environment, the agent env file, config.json, /api/config and the network
\* preset that supplies a usable (non-empty) value for it; an unknown
\* NETWORK in the environment selects the testnet preset.
IsEmptyValue(key, v) == IF key = "CHAIN_ID" THEN v = <<>> ELSE v = ""
Usable(d, key) == key \in DOMAIN d /\ ~IsEmptyValue(key, d[key])
ResolvedUrl ==
  LET ds == <<sources.env, sources.agent_env, sources.file_config>>
      with == {i \in 1..3 : Usable(ds[i], "EXCHANGE_URL")}
  IN IF with = {} THEN DEFAULT_EXCHANGE_URL
     ELSE ds[CHOOSE i \in with : \A j \in with : i <= j].EXCHANGE_URL
RemoteSupplied ==
  LET answer == sources.remote[ResolvedUrl]
      shown(field, key) ==
        IF answer.status = 200 /\ field \in DOMAIN answer.data
        THEN key :> answer.data[field] ELSE EmptyDict
      chain == shown("chainId", "CHAIN_ID")
  IN (IF chain = EmptyDict \/ chain.CHAIN_ID = 0 THEN EmptyDict
      ELSE "CHAIN_ID" :> NatStr(chain.CHAIN_ID))
       @@ shown("network", "NETWORK") @@ shown("exchange", "EXCHANGE_ADDRESS")
SelectedPreset ==
  IF Usable(sources.env, "NETWORK") /\ sources.env.NETWORK = "mainnet"
  THEN _NETWORKS.mainnet ELSE _NETWORKS.testnet
HighestUsable(key, default) ==
  LET ds == <<sources.env, sources.agent_env, sources.file_config,
              RemoteSupplied, SelectedPreset>>
      with == {i \in 1..5 : Usable(ds[i], key)}
  IN IF with = {} THEN default
     ELSE ds[CHOOSE i \in with : \A j \in with : i <= j][key]
C16_HighestUsableSource ==
  (tool = "load_config" /\ pc # "start")
  => /\ raised = NoExc
     /\ cfg # None
     /\ The(cfg).PRIVATE_KEY = HighestUsable("PRIVATE_KEY", "")
     /\ The(cfg).EXCHANGE_ADDRESS = HighestUsable("EXCHANGE_ADDRESS", "")
     /\ The(cfg).CHAIN_ID = NatOfStr(HighestUsable("CHAIN_ID", <<>>))
     /\ The(cfg).NETWORK = HighestUsable("NETWORK", _DEFAULT_NETWORK)
     /\ The(cfg).EXCHANGE_URL = ResolvedUrl

\* C18: whatever the interleaving of concurrent sign_order calls, a call
\* that has returned has returned the payload the same call returns when it
\* runs alone, and no step of a call changes cfg or ORDER_TYPES.
Alone(t) ==
  LET a == calls.args[t]
  IN sign_order(The(cfg), calls.key, a.market_id, a.is_buy, a.is_yes,
                a.price_bps, a.amount_raw, a.nonce, a.expiry,
                calls.style).payload
C18_CallsDoNotInterfere ==
  /\ [](\A t \in Threads :
          calls.at[t] = "done" => calls.result[t] = Some(Alone(t)))
  /\ [][cfg' = cfg /\ calls'.ORDER_TYPES = calls.ORDER_TYPES]_vars
\* two calls on different arguments, one returned while the other was
\* between building its message and signing it
C18_Witness ==
  \E t1, t2 \in Threads :
    /\ calls.args[t1] # calls.args[t2]
    /\ calls.at[t1] = "done"
    /\ calls.at[t2] = "sign"
    /\ calls.result[t1] = Some(Alone(t1))

\* C19: every USDC transfer cashout.py sends goes to the address configured
\* as WITHDRAW_TO; when WITHDRAW_TO is unset or no address, or --to is given
\* and is not that address, no transaction is sent and the run ends with
\* exit code 1.
ConfiguredDestination ==
  ToChecksum(Strip(DictGet(sources.env, "WITHDRAW_TO", "")))
C19_TransferOnlyToWithdrawTo ==
  /\ \A i \in 1..Len(cash.txs) :
       cash.txs[i].kind = "transfer"
         => /\ ConfiguredDestination # None
            /\ cash.txs[i].to = The(ConfiguredDestination)
  /\ (\/ ConfiguredDestination = None
      \/ args.to # None /\ ToChecksum(The(args.to)) # ConfiguredDestination)
       => /\ cash.txs = <<>>
          /\ pc \notin {"execute", "withdrawn"}
          /\ pc = "exit" => exitCode = Some(1)

\* C20: a run of cashout.py without --confirm sends no transaction, and when
\* it ends with success it has printed the plan with dryRun true.
C20_DryRunSendsNothing ==
  ~args.confirm
  => /\ cash.txs = <<>>
     /\ pc \notin {"execute", "withdrawn"}
     /\ (pc = "exit" /\ exitCode = Some(0))
          => /\ Len(stdout) = 1
             /\ stdout[1].dryRun
             /\ stdout[1].to = The(ConfiguredDestination)
             /\ "message" \in DOMAIN stdout[1]
\* a finished dry run whose plan takes money out of the vault
C20_Witness ==
  /\ ~args.confirm
  /\ pc = "exit"
  /\ exitCode = Some(0)
  /\ stdout[1].need_from_vault > 0
  /\ cash.chain.vault > 0

\* C21: a signed cancel payload carries the order id of the command line,
\* its message is the template filled with its own orderId and timestamp,
\* and its signature is one "0x"-prefixed signature by the configured key
\* over that message; sign_order.py prints these four fields, and
\* cancel_order.py sends the same signature, message and timestamp with
\* DELETE to <EXCHANGE_URL>/api/order/<orderId>.
C21_CancelPayloadConsistent ==
  /\ cancelData # None =>
       LET d == The(cancelData)
       IN /\ d.orderId = The(args.order_id)
          /\ d.timestamp \in Clock
          /\ d.message = CancelMessage(d.orderId, d.timestamp)
          /\ d.signature.prefixes = 1
          /\ d.signature.bytes
               = SignMessage(The(cfg).PRIVATE_KEY, encode_defunct(d.message))
  /\ \A i \in 1..Len(posts) :
       posts[i].method = "DELETE"
         => /\ cancelData # None
            /\ posts[i].json = [signature |-> The(cancelData).signature,
                                message |-> The(cancelData).message,
                                timestamp |-> The(cancelData).timestamp]
            /\ posts[i].url = <<The(cfg).EXCHANGE_URL, "/api/order/",
                                The(cancelData).orderId>>
  /\ \A i \in 1..Len(stdout) :
       "type" \in DOMAIN stdout[i] /\ stdout[i].type = "cancel"
         => /\ cancelData # None
            /\ [f \in DOMAIN The(cancelData) |-> stdout[i][f]]
                 = The(cancelData)
\* cancel_order.py has sent the cancel of an order id that itself holds the
\* separating text, signed at a time that is not a whole second
C21_Witness ==
  /\ tool = "cancel_order"
  /\ Len(posts) = 1 /\ posts[1].method = "DELETE"
  /\ Len(The(cancelData).orderId) > 2
  /\ The(cancelData).timestamp % 1000 # 0

\* C22: when place_order.py has run on the options and configuration that
\* sign_order.py --type order ran on before (with --nonce and --expiry
\* given), either neither built a signed order or both built the same one.
C22_EntryPointsAgree ==
  (pair # None /\ tool = "place_order" /\ pc \in {"signed", "exit"})
    => payload = The(pair).payload

\* C23: in a run of cashout.py with --confirm, the amount to transfer is
\* above 0 and at most the vault balance plus the wallet balance that were
\* read; the amount withdrawn is max(0, transfer - wallet balance), at most
\* the vault balance, and its transaction is mined before the transfer is
\* sent; and when the transfer is about to be sent, the wallet holds at
\* least the amount to transfer.
CashAmountsSound ==
  cash.plan # None
    => LET p == The(cash.plan)
           v == The(cash.vault_bal)
           w == The(cash.wallet_bal)
       IN /\ p.transfer_raw > 0
          /\ p.transfer_raw <= v + w
          /\ p.need_from_vault = Max0(p.transfer_raw - w)
          /\ p.need_from_vault <= v
WithdrawBeforeTransfer ==
  \A i \in 1..Len(cash.txs) :
    LET p == The(cash.plan)
    IN /\ cash.txs[i].kind = "withdraw"
            => i = 1 /\ p.need_from_vault > 0
                     /\ cash.txs[i].amount = p.need_from_vault
       /\ cash.txs[i].kind = "transfer"
            => /\ cash.txs[i].amount = p.transfer_raw
               /\ i = Len(cash.txs)
               /\ i = (IF p.need_from_vault > 0 THEN 2 ELSE 1)
WalletCoversTransfer ==
  (pc = "withdrawn" \/ (pc = "execute" /\ The(cash.plan).need_from_vault = 0))
    => cash.chain.wallet >= The(cash.plan).transfer_raw
C23_TransferIsCovered ==
  /\ CashAmountsSound
  /\ WithdrawBeforeTransfer
  /\ WalletCoversTransfer

\* C24: every deposit, withdraw, mintShares or mergeShares transaction that
\* vault_ops.py sends carries an amount above 0, and a run whose --amount
\* is missing, is 0 or less, or is positive but below one raw unit
\* (0.000001 USDC) sends no transaction.
AmountTxKinds == {"deposit", "withdraw", "mintShares", "mergeShares"}
BelowOneUnit(t) ==
  /\ t.kind = "dec"
  /\ t.scale > USDC_DECIMALS
  /\ t.num < Pow(10, t.scale - USDC_DECIMALS)
C24_SentAmountsPositive ==
  /\ \A i \in 1..Len(vault.txs) :
       vault.txs[i].kind \in AmountTxKinds => vault.txs[i].amount > 0
  /\ (/\ args.action # None
      /\ The(args.action) \in {"deposit", "withdraw", "mint", "merge"}
      /\ \/ args.amount = None
         \/ NonPositive(The(args.amount))
         \/ BelowOneUnit(The(args.amount)))
       => vault.txs = <<>>

\* C25: in --action deposit the deposit transaction is sent only while the
\* allowance on the chain is at least the amount; an approve transaction
\* is sent exactly when the allowance that was read is below the amount,
\* and it is mined before the deposit is sent.
ApproveIffNeeded ==
  /\ \A i \in 1..Len(vault.txs) :
       /\ vault.txs[i].kind = "approve"
            => /\ i = 1
               /\ args.action = Some("deposit")
               /\ The(vault.allowance) < The(vault.amount_raw)
       /\ vault.txs[i].kind = "deposit"
            => /\ vault.txs[i].amount = The(vault.amount_raw)
               /\ i = (IF The(vault.allowance) < The(vault.amount_raw)
                       THEN 2 ELSE 1)
               /\ i = 2 => vault.txs[1].kind = "approve"
AllowanceCoversDeposit ==
  (/\ tool = "vault_ops"
   /\ vault.amount_raw # None
   /\ \/ pc = "approved"
      \/ pc = "allowance" /\ The(vault.allowance) >= The(vault.amount_raw))
    => vault.chain.allowance >= The(vault.amount_raw)
C25_DepositOnlyWhenApproved ==
  /\ ApproveIffNeeded
  /\ AllowanceCoversDeposit

\* C26: --action claim sends one claimWinnings transaction when the YES or
\* the NO share balance it read is not 0 and none when both are 0; with
\* both 0 the run ends with exit code 0 and prints success with the
\* message "No shares to claim"; no other action sends claimWinnings.
ClaimTxs == {i \in 1..Len(vault.txs) : vault.txs[i].kind = "claimWinnings"}
C26_ClaimIffShares ==
  /\ ClaimTxs # {}
       => /\ args.action = Some("claim")
          /\ vault.txs = <<vault.txs[1]>>
          /\ vault.shares # None
          /\ The(vault.shares).yes # 0 \/ The(vault.shares).no # 0
  /\ (args.action = Some("claim") /\ vault.shares # None)
       => IF The(vault.shares).yes = 0 /\ The(vault.shares).no = 0
          THEN /\ vault.txs = <<>>
               /\ pc = "exit" /\ exitCode = Some(0)
               /\ Len(stdout) = 1
               /\ stdout[1].success
               /\ stdout[1].message = "No shares to claim"
          ELSE /\ Cardinality(ClaimTxs) = 1
               /\ pc = "exit" /\ exitCode = Some(0)
               /\ "txHash" \in DOMAIN stdout[1]
  /\ (args.action = Some("claim") /\ pc = "exit" /\ exitCode = Some(0))
       => vault.shares # None
\* a claim with NO shares only was sent, and the contract reverted it
C26_Witness ==
  /\ args.action = Some("claim")
  /\ ClaimTxs # {}
  /\ The(vault.shares).yes = 0
  /\ vault.txs[1].status = "reverted"

\* C27: a finished run of ready_check.py exits with 0 exactly when all six
\* checks are PASS, and then it has printed success true; when a check is
\* FAIL or SKIP (or the run ended in an exception) it exits with 1 and any
\* object printed says success false; and check_mon and check_vault are
\* called only with an address and after the rpc check passed.
SixChecks == {CheckNames[i] : i \in 1..Len(CheckNames)}
AllPass ==
  /\ DOMAIN ready.checks = SixChecks
  /\ \A name \in SixChecks : ready.checks[name] = "PASS"
C27_SuccessIffAllPass ==
  /\ pc = "exit"
       => /\ exitCode \in {Some(0), Some(1)}
          /\ exitCode = Some(0) <=> AllPass
          /\ Len(stdout) <= 1
          /\ raised = NoExc
               => /\ Len(stdout) = 1
                  /\ stdout[1].success <=> AllPass
                  /\ stdout[1].checks = ready.checks
                  /\ DOMAIN ready.checks = SixChecks
  /\ \A name \in {"mon", "vault"} :
       /\ name \in ready.called
            => ready.address # None /\ ready.checks["rpc"] = "PASS"
       /\ (name \in DOMAIN ready.checks /\ ready.checks[name] # "SKIP")
            => name \in ready.called
\* the run ends with FAIL for mon and nothing else wrong
C27_Witness ==
  /\ pc = "exit"
  /\ exitCode = Some(1)
  /\ Len(ready.failures) = 1
  /\ ready.failures[1].label = "mon"
  /\ DictGet(ready.checks, "vault", "") = "PASS"

\* C28: once listen is called the run always ends, and it ends with exactly
\* one summary line, printed last; every wait for a message lasts at most
\* 5 seconds and at most what is left of the duration, so nothing is
\* received after the duration; and when --filter is given, every event
\* printed has a type that is in the filter.
IsSummaryLine(line) == "event" \in DOMAIN line
IsEventLine(line) == "_receivedAt" \in DOMAIN line
ListenCalled == cfg # None
SummaryLast ==
  (ListenCalled /\ pc = "exit")
    => /\ stdout # <<>>
       /\ IsSummaryLine(stdout[Len(stdout)])
       /\ \A i \in 1..(Len(stdout) - 1) : ~IsSummaryLine(stdout[i])
WaitsBounded ==
  /\ \A i \in 1..Len(ws.waits) :
       /\ ws.waits[i].timeout <= RECV_TIMEOUT
       /\ ws.waits[i].at + ws.waits[i].timeout <= The(ws.start) + args.duration
  /\ \A i \in 1..Len(stdout) :
       IsEventLine(stdout[i])
         => stdout[i]._receivedAt <= The(ws.start) + args.duration
FilterRespected ==
  args.filter # None
    => \A i \in 1..Len(stdout) :
         IsEventLine(stdout[i]) => InFilter(stdout[i], args.filter)
C28_ListenEndsWithSummary ==
  /\ ListenCalled ~> (pc = "exit")
  /\ [](SummaryLast /\ WaitsBounded /\ FilterRespected)
====
